---- MODULE Spec2Model ----
(***************************************************************************)
(* A model of the BZ2 .msh codec of bz2msh.py: the optional-block peek     *)
(* protocol (read_optional_blocks / write_optionals), the marker-driven    *)
(* mesh-tree decoder of Block.read, the encoder write_mesh of MSH.write,   *)
(* and the file header handling of MSH.read / MSH.write.                   *)
(*                                                                         *)
(* Conventions.  A 32-bit word is the tuple of its 4 little-endian bytes   *)
(* (the tag constants exceed the integers TLC computes with).  A file      *)
(* offset is 0-based, so byte i of a stream s at offset p is s[p+i].       *)
(* Python's None is the empty sequence << >> and an object x that may be   *)
(* None is << x >>.  Fixed-width ctypes fields (floats, matrices, colours) *)
(* are copied verbatim by readinto/write and are modelled by their size,   *)
(* with zero bytes as content.                                             *)
(***************************************************************************)
EXTENDS Integers, Sequences, FiniteSets, TLC

(***************************************************************************)
(* Tag constants, bz2msh.py lines 8-14, as little-endian bytes.            *)
(***************************************************************************)
MSH_END_OF_OPTIONALS == <<63, 81, 9, 151>>     \* 0x9709513F
MSH_MATERIAL == <<62, 81, 9, 151>>             \* 0x9709513E
MSH_TEXTURE == <<11, 252, 81, 121>>            \* 0x7951FC0B
MSH_CHILD == <<238, 81, 76, 247>>              \* 0xF74C51EE
MSH_SIBLING == <<128, 8, 153, 184>>            \* 0xB8990880
MSH_END == <<100, 184, 62, 169>>               \* 0xA93EB864
MSH_EOF == <<241, 71, 187, 227>>               \* 0xE3BB47F1

\* sizeof(c_uint32) and sizeof(c_uint16)
SizeofUint32 == 4
SizeofUint16 == 2
\* Material.read: diffuse, specular, specular_power, emissive, ambient
SizeofMaterialFields == 68
\* Texture.read: texture_type, mipmaps
SizeofTextureFields == 8
\* VertGroup.read: state_index, vert_count, index_count, plane_index
SizeofVertGroupFields == 16
\* BuckyDesc.read: flags, index_count, vert_count
SizeofBuckyDescFields == 12

\* Mesh.read: state_index, is_single_geom, renderflags, matrix
SizeofMeshFields == 76
\* Color, Plane, Vertex, c_uint16 (an index)
SizeofColor == 4
SizeofPlane == 16
SizeofVertex == 32
SizeofIndex == 2

\* BlockInfo, Sphere, MSH_Header, Vector, UVPair, FaceObj, Matrix, AnimKey
SizeofBlockInfo == 8
SizeofSphere == 80
SizeofMSHHeader == 28
SizeofVector == 12
SizeofUVPair == 8
SizeofFaceObj == 20
SizeofMatrix == 64
SizeofAnimKey == 36
\* c_float
SizeofFloat == 4
\* AnimList.read: anim_type, max_frame, end_frame; Anim.read: index, max_frame
SizeofAnimListFields == 12
SizeofAnimFields == 8

\* BlockHeader: fileType, verID, notUsed
SizeofFileType == 4
SizeofVerID == 4
SizeofNotUsed == 32

\* Bounds of the model.
MaxNameLen == 1
\* Mesh objects one decode or one in-memory tree holds
MaxMeshes == 4
\* Blocks an MSH object holds
MaxBlocks == 3
\* calls of Block.walk on one decoded Block
MaxWalks == 2
\* the Blocks of an input file, and the pairs of a container built in memory
MaxFileBlocks == 2
MaxPairs == 2
\* the files of one multiple selection
MaxFiles == 3

None == << >>
Some(x) == << x >>

\* the element of a singleton: { F(x) : x \in {e} } computes e once for all
\* the uses of x in F
The(S) == CHOOSE x \in S : TRUE

Zeros(n) == [i \in 1..n |-> 0]
c_uint32 == Zeros(SizeofUint32)
c_uint16 == Zeros(SizeofUint16)

RECURSIVE Concat(_)
Concat(ss) == IF ss = << >> THEN << >> ELSE Head(ss) \o Concat(Tail(ss))

(***************************************************************************)
(* The binary file object.  readinto fills the first k bytes of the        *)
(* buffer, k the number of bytes left (at most the buffer's size), keeps   *)
(* the other bytes of the buffer as they were and advances by k.           *)
(***************************************************************************)
Avail(s, p, n) ==
  IF p >= Len(s) THEN 0 ELSE IF Len(s) - p < n THEN Len(s) - p ELSE n

readinto(buf, s, p) ==
  LET k == Avail(s, p, Len(buf))
  IN  [value |-> [i \in 1..Len(buf) |-> IF i <= k THEN s[p + i] ELSE buf[i]],
       tell |-> p + k]

read(s, p, n) ==
  LET k == Avail(s, p, n)
  IN  [bytes |-> SubSeq(s, p + 1, p + k), tell |-> p + k]

\* readinto of a fixed-width field whose content the model does not keep
skip(s, p, n) == p + Avail(s, p, n)

uint16_value(b) == b[1] + 256 * b[2]
to_uint16(n) == <<n % 256, (n \div 256) % 256>>
uint32_value(b) == b[1] + 256 * b[2] + 65536 * b[3] + 16777216 * b[4]
to_uint32(n) ==
  <<n % 256, (n \div 256) % 256, (n \div 65536) % 256, (n \div 16777216) % 256>>

\* bytes[0:-1]
StripLast(b) == SubSeq(b, 1, Len(b) - 1)
\* bytes.decode("ascii", "ignore")
IsAscii(x) == x < 128
DecodeAscii(b) == SelectSeq(b, IsAscii)

\* name_length = c_uint16(); f.readinto(name_length);
\* name = f.read(name_length.value)[0:-1].decode("ascii", "ignore")
read_name(s, p) ==
  LET nl == readinto(c_uint16, s, p)
      r == read(s, nl.tell, uint16_value(nl.value))
  IN  [name |-> DecodeAscii(StripLast(r.bytes)), tell |-> r.tell]

\* Material.read: no check of the name
MaterialRead(s, p) ==
  LET n == read_name(s, p)
  IN  [obj |-> [name |-> n.name], tell |-> skip(s, n.tell, SizeofMaterialFields)]

\* Texture.read: no check of the name
TextureRead(s, p) ==
  LET n == read_name(s, p)
  IN  [obj |-> [name |-> n.name], tell |-> skip(s, n.tell, SizeofTextureFields)]

(***************************************************************************)
(* read_optional_blocks.  A frame holds the locals of one call; each of    *)
(* the three probes is a function from frame to frame.  pc names the       *)
(* statement the call is at: "material", "texture", "end_marker", then     *)
(* "return", or "OSError" when f.seek is given a negative offset.          *)
(***************************************************************************)
\* mutant: the rewind after a non-matching tag is forgotten
SeekBackForgotten(p) == p

\* f.seek(f.tell() - sizeof(c_uint32))
SeekBack(p) == p - SizeofUint32

Frame(p) ==
  [pc |-> "material", tell |-> p, probe |-> p, check |-> c_uint32,
   material |-> None, texture |-> None, end_marker |-> FALSE]

\* the else branch of a probe
Rewind(fr, r, next) ==
  IF SeekBack(r.tell) < 0
  THEN [fr EXCEPT !.pc = "OSError", !.tell = r.tell, !.probe = fr.tell, !.check = r.value]
  ELSE [fr EXCEPT !.pc = next, !.tell = SeekBack(r.tell), !.probe = fr.tell,
                  !.check = r.value]

probe_material(s, fr) ==
  LET r == readinto(fr.check, s, fr.tell)
  IN  IF r.value = MSH_MATERIAL
      THEN LET m == MaterialRead(s, r.tell)
           IN  [fr EXCEPT !.pc = "texture", !.tell = m.tell, !.probe = fr.tell,
                          !.check = r.value, !.material = Some(m.obj)]
      ELSE Rewind(fr, r, "texture")

probe_texture(s, fr) ==
  LET r == readinto(fr.check, s, fr.tell)
  IN  IF r.value = MSH_TEXTURE
      THEN LET t == TextureRead(s, r.tell)
           IN  [fr EXCEPT !.pc = "end_marker", !.tell = t.tell, !.probe = fr.tell,
                          !.check = r.value, !.texture = Some(t.obj)]
      ELSE Rewind(fr, r, "end_marker")

probe_end_marker(s, fr) ==
  LET r == readinto(fr.check, s, fr.tell)
  IN  IF r.value = MSH_END_OF_OPTIONALS
      THEN [fr EXCEPT !.pc = "return", !.tell = r.tell, !.probe = fr.tell,
                      !.check = r.value, !.end_marker = TRUE]
      ELSE Rewind(fr, r, "return")

\* the whole call; an OSError leaves the call at once
read_optional_blocks(s, p) ==
  The({ IF a.pc = "OSError" THEN a
        ELSE The({ IF b.pc = "OSError" THEN b ELSE probe_end_marker(s, b) :
                   b \in { probe_texture(s, a) } }) :
        a \in { probe_material(s, Frame(p)) } })

(***************************************************************************)
(* MSH.write's helpers.                                                    *)
(***************************************************************************)
write_name(name) ==
  LET written_name == name \o <<0>>
  IN  to_uint16(Len(written_name)) \o written_name

DISABLE_END_OF_OPTIONALS == TRUE

WriteMaterial(c) ==
  IF c.material # None
  THEN MSH_MATERIAL \o write_name(c.material[1].name) \o Zeros(SizeofMaterialFields)
  ELSE << >>

WriteTexture(c) ==
  IF c.texture # None
  THEN MSH_TEXTURE \o write_name(c.texture[1].name) \o Zeros(SizeofTextureFields)
  ELSE << >>

\* mutant: the policy flag is ignored
WriteEndMarkerUnsuppressed(c) ==
  IF c.end_marker THEN MSH_END_OF_OPTIONALS ELSE << >>

WriteEndMarker(c) ==
  IF c.end_marker /\ ~DISABLE_END_OF_OPTIONALS THEN MSH_END_OF_OPTIONALS ELSE << >>

write_optionals(c) == WriteMaterial(c) \o WriteTexture(c) \o WriteEndMarker(c)

(***************************************************************************)
(* VertGroup.read and Mesh.read.  A Mesh object is a record; child and     *)
(* sibling hold the index of a Mesh in the list of the objects created     *)
(* (0 for None), meshes is the list of such indices.  vert_colors, planes  *)
(* and vertex are kept as their element counts.                            *)
(***************************************************************************)
VertGroupRead(s, p) ==
  The({ [obj |-> [material |-> fr.material, texture |-> fr.texture,
                  end_marker |-> fr.end_marker],
         tell |-> fr.tell] :
        fr \in { read_optional_blocks(s, skip(s, p, SizeofVertGroupFields)) } })

\* for i in range(count.value): self.vert_groups += [VertGroup(f)]
RECURSIVE ReadVertGroups(_, _, _)
ReadVertGroups(s, p, n) ==
  IF n = 0 THEN [list |-> << >>, tell |-> p]
  ELSE The({ The({ [list |-> <<v.obj>> \o rest.list, tell |-> rest.tell] :
                   rest \in { ReadVertGroups(s, v.tell, n - 1) } }) :
             v \in { VertGroupRead(s, p) } })

\* self.indices = (c_uint16 * count.value)(); f.readinto(self.indices)
ReadIndices(s, p, n) ==
  [list |-> [i \in 1..n |->
               uint16_value(readinto(c_uint16, s, p + SizeofIndex * (i - 1)).value)],
   tell |-> skip(s, p, SizeofIndex * n)]

\* mutant: the name check of Mesh.read is dropped
NameIsEmptyNever(name) == FALSE

\* if len(self.name) <= 0
NameIsEmpty(name) == Len(name) <= 0

\* one counted array of fixed-size elements, kept as its count: st is the
\* pair of the count buffer (shared by all of Mesh.read's arrays, so a short
\* read leaves the previous count in it) and f.tell()
ReadCounted(s, st, size) ==
  The({ [count |-> c.value, len |-> uint32_value(c.value),
         tell |-> skip(s, c.tell, uint32_value(c.value) * size)] :
        c \in { readinto(st.count, s, st.tell) } })

MeshReadArrays(s, name, p, level) ==
  The({ The({ The({ The({ The({
    [exc |-> "none", tell |-> ix.tell,
     obj |-> Some([name |-> name,
                   vert_colors |-> a1.len, planes |-> a2.len, vertex |-> a3.len,
                   vert_groups |-> vg.list, indices |-> ix.list,
                   child |-> 0, sibling |-> 0, meshes |-> << >>, level |-> level])] :
    ix \in { The({ ReadIndices(s, c.tell, uint32_value(c.value)) :
                   c \in { readinto(vg.count, s, vg.tell) } }) } }) :
    vg \in { The({ [count |-> c.value] @@ ReadVertGroups(s, c.tell, uint32_value(c.value)) :
                   c \in { readinto(a3.count, s, a3.tell) } }) } }) :
    a3 \in { ReadCounted(s, a2, SizeofVertex) } }) :
    a2 \in { ReadCounted(s, a1, SizeofPlane) } }) :
    a1 \in { ReadCounted(s, [count |-> c_uint32, tell |-> p], SizeofColor) } })

MeshRead(s, p, level) ==
  The({ IF NameIsEmpty(n.name)
        THEN [exc |-> "ZeroLengthName", tell |-> n.tell, obj |-> None]
        ELSE MeshReadArrays(s, n.name, skip(s, n.tell, SizeofMeshFields), level) :
        n \in { read_name(s, p) } })

(***************************************************************************)
(* MSH.write: write_vert_group and write_mesh.                             *)
(***************************************************************************)
write_vert_group(vg) == Zeros(SizeofVertGroupFields) \o write_optionals(vg)

\* write_mesh up to the local index buffer (lines 851-868)
write_mesh_body(m) ==
  write_name(m.name) \o Zeros(SizeofMeshFields)
    \o to_uint32(m.vert_colors) \o Zeros(m.vert_colors * SizeofColor)
    \o to_uint32(m.planes) \o Zeros(m.planes * SizeofPlane)
    \o to_uint32(m.vertex) \o Zeros(m.vertex * SizeofVertex)
    \o to_uint32(Len(m.vert_groups))
    \o Concat([i \in 1..Len(m.vert_groups) |-> write_vert_group(m.vert_groups[i])])
    \o to_uint32(Len(m.indices))
    \o Concat([i \in 1..Len(m.indices) |-> to_uint16(m.indices[i])])

\* mutant: the sibling is announced by the child marker
SiblingMarkerAsChild(m) == IF m.sibling # 0 THEN MSH_CHILD ELSE << >>

\* the markers write_mesh puts around a body
ChildMarker(m) == IF m.child # 0 THEN MSH_CHILD ELSE << >>
SiblingMarker(m) == IF m.sibling # 0 THEN MSH_SIBLING ELSE << >>

RECURSIVE write_mesh(_, _)
write_mesh(M, i) ==
  write_mesh_body(M[i])
    \o ChildMarker(M[i])
    \o (IF M[i].child # 0 THEN write_mesh(M, M[i].child) ELSE << >>)
    \o MSH_END
    \o SiblingMarker(M[i])
    \o (IF M[i].sibling # 0 THEN write_mesh(M, M[i].sibling) ELSE << >>)

\* Python list indexing, 0-based, a negative index counting from the end
PyInRange(list, i) == -Len(list) <= i /\ i < Len(list)
PyGet(list, i) == IF i >= 0 THEN list[i + 1] ELSE list[Len(list) + i + 1]
PySet(list, i, x) ==
  IF i >= 0 THEN [list EXCEPT ![i + 1] = x] ELSE [list EXCEPT ![Len(list) + i + 1] = x]

(***************************************************************************)
(* State.                                                                  *)
(*                                                                         *)
(* read_optional_blocks (one call, three probes):                          *)
(*   fdata, ftell       the file's bytes and f.tell()                      *)
(*   block_type_check   the c_uint32 the three probes share                *)
(*   material, texture, had_end_marker   the locals it returns             *)
(*   opc                the statement the call is at                       *)
(*   ostart, oprobe     f.tell() when the call and the last probe began    *)
(*   container          the in-memory face group the bytes were written    *)
(*                      from (None when the bytes are an arbitrary input)  *)
(*   follow             the field MSH.write emits after the face group     *)
(***************************************************************************)
VARIABLES fdata, ftell, block_type_check, material, texture, had_end_marker,
          opc, ostart, oprobe, container, follow

optVars == <<fdata, ftell, block_type_check, material, texture, had_end_marker,
             opc, ostart, oprobe, container, follow>>

(***************************************************************************)
(* The mesh stream of one Block (Block.read lines 715-757) and MSH.write   *)
(* of its tree:                                                            *)
(*   mesh          the Mesh objects created so far, in creation order      *)
(*   root          self.root (0 for None)                                  *)
(*   in_mesh, indentation_level, mesh_at, block_type   Block.read's locals *)
(*   tpc           "build" (an in-memory tree under construction), "root", *)
(*                 "loop", "eof" (where Block.read is), "done", "raised"   *)
(*   exc           the exception raised                                    *)
(*   tdata, ttell  the file's bytes from the root Mesh on, and the cursor  *)
(*   topen         the rest of the input is not fixed yet: an arbitrary    *)
(*                 input is supplied as the decoder reads it               *)
(*   origin        "input": the tree is decoded from an arbitrary input;   *)
(*                 "memory": it is built in memory                         *)
(*   graph0        the tree MSH.write was given (None before the write)    *)
(*   walked        what the calls of Block.walk on the decoded Block have  *)
(*                 yielded, one sequence of (mesh, depth) pairs per call   *)
(***************************************************************************)
VARIABLES mesh, root, in_mesh, indentation_level, mesh_at, block_type, tpc, exc,
          tdata, ttell, topen, origin, graph0, walked

treeVars == <<mesh, root, in_mesh, indentation_level, mesh_at, block_type, tpc, exc,
              tdata, ttell, topen, origin, graph0, walked>>

(***************************************************************************)
(* An MSH object and the file MSH.write makes of it:                       *)
(*   blocks        self.blocks                                             *)
(*   blockCount    self.block_header.blockCount                            *)
(*   blockCount0   the value blockCount held when MSH.write was called     *)
(*   out_header    the BlockHeader bytes of the file written               *)
(*   out_blocks    the Blocks written after it, one per loop iteration     *)
(*   fpc           "ready" (an MSH object in memory), "written" (MSH.write *)
(*                 has returned), "raised" (MSH.read failed)               *)
(***************************************************************************)
VARIABLES blocks, blockCount, blockCount0, out_header, out_blocks, fpc

fileVars == <<blocks, blockCount, blockCount0, out_header, out_blocks, fpc>>

\* MSH.__init__ on the bytes of a file (lines 796-808) and MSH.write of the
\* graph decoded: msource describes the Blocks the input was built from, mfile
\* is the input, mtell is f.tell(), mheader is self.block_header, block_index
\* the loop variable, mblocks is self.blocks, mexc the exception that left
\* MSH.read, medited tells a container was replaced in memory, mout is the
\* file written
VARIABLES msource, mfile, mtell, mheader, block_index, mblocks, mpc, mexc, medited, mout
mshVars == <<msource, mfile, mtell, mheader, block_index, mblocks, mpc, mexc, medited, mout>>

\* load of msh_blender_importer (lines 557-571): multiple_files is
\* opt["multi_select"], filepath the single path, index the loop variable,
\* attempted the files Load was called on, caught the files whose exception
\* the handler printed, lpc the position in load, lresult what load returned
VARIABLES multiple_files, filepath, index, attempted, caught, lpc, lresult
loadVars == <<multiple_files, filepath, index, attempted, caught, lpc, lresult>>

vars == <<optVars, treeVars, fileVars, mshVars, loadVars>>

\* the values of the variables a specification does not use
OptIdle ==
  /\ fdata = << >> /\ ftell = 0 /\ block_type_check = c_uint32
  /\ material = None /\ texture = None /\ had_end_marker = FALSE
  /\ opc = "idle" /\ ostart = 0 /\ oprobe = 0 /\ container = None /\ follow = << >>

FileIdle ==
  /\ blocks = << >> /\ blockCount = 0 /\ blockCount0 = 0
  /\ out_header = << >> /\ out_blocks = << >> /\ fpc = "idle"

MSHIdle ==
  /\ msource = << >> /\ mfile = << >> /\ mtell = 0 /\ mheader = << >>
  /\ block_index = 0 /\ mblocks = << >> /\ mpc = "idle" /\ mexc = "none"
  /\ medited = FALSE /\ mout = None

LoadIdle ==
  /\ multiple_files = << >> /\ filepath = None /\ index = 0 /\ attempted = << >>
  /\ caught = << >> /\ lpc = "idle" /\ lresult = None

TreeIdle ==
  /\ mesh = << >> /\ root = 0 /\ in_mesh = 0 /\ indentation_level = 0
  /\ mesh_at = << >> /\ block_type = c_uint32 /\ tpc = "idle" /\ exc = "none"
  /\ tdata = << >> /\ ttell = 0 /\ topen = FALSE /\ origin = "idle" /\ graph0 = None
  /\ walked = << >>

(***************************************************************************)
(* Inputs of the optional-block machine.                                   *)
(***************************************************************************)
\* in-memory names: ASCII strings of at most MaxNameLen characters ("", "m", ...)
Names == { [i \in 1..n |-> 109] : n \in 0..MaxNameLen }

Materials == { [name |-> n] : n \in Names }
Textures == { [name |-> n] : n \in Names }

\* a VertGroup or BuckyDesc as MSH.write's write_optionals sees it
Containers ==
  [material : {None} \cup { Some(m) : m \in Materials },
   texture : {None} \cup { Some(t) : t \in Textures },
   end_marker : BOOLEAN]

\* the fixed fields read before read_optional_blocks is called; << >> is a
\* direct call at offset 0
FixedFields == { << >>, Zeros(SizeofBuckyDescFields), Zeros(SizeofVertGroupFields) }

\* the 32-bit field after a face group: a count or the next group's first
\* field, which is any value the graph holds
FollowWords == { c_uint32, MSH_END_OF_OPTIONALS, MSH_MATERIAL }

\* arbitrary inputs: every order of records a file can hold at the cursor,
\* with the sentinel or not, cut off at any length
OnDisk(c, e) ==
  WriteMaterial(c) \o WriteTexture(c) \o (IF e THEN MSH_END_OF_OPTIONALS ELSE << >>)

Swapped(c) == WriteTexture(c) \o WriteMaterial(c)

OptBodies ==
  { OnDisk(c, c.end_marker) \o w : c \in Containers, w \in FollowWords }
  \cup { Swapped(c) \o c_uint32 :
         c \in { x \in Containers : x.material # None /\ x.texture # None /\ ~x.end_marker } }

Cut(p, b) == { [data |-> SubSeq(p \o b, 1, n), start |-> Len(p)] : n \in Len(p)..Len(p \o b) }

OptInputs == UNION { Cut(x[1], x[2]) : x \in FixedFields \X OptBodies }

(***************************************************************************)
(* The optional-block machine: MSH.write's write_optionals on an in-memory *)
(* face group, and read_optional_blocks one action per probe.              *)
(***************************************************************************)
OptInit ==
  /\ MSHIdle
  /\ LoadIdle
  /\ TreeIdle
  /\ FileIdle
  /\ block_type_check = c_uint32
  /\ material = None
  /\ texture = None
  /\ had_end_marker = FALSE
  /\ \/ \E in \in OptInputs :
          /\ fdata = in.data
          /\ ftell = in.start
          /\ ostart = in.start
          /\ oprobe = in.start
          /\ container = None
          /\ follow = << >>
          /\ opc = "material"
     \/ \E c \in Containers, p \in FixedFields \ {<< >>}, w \in FollowWords :
          /\ fdata = p
          /\ ftell = Len(p)
          /\ ostart = Len(p)
          /\ oprobe = Len(p)
          /\ container = Some(c)
          /\ follow = w
          /\ opc = "write"

\* MSH.write: write_optionals(f, container), then the next field; the
\* decoder is then run on these bytes from the end of the fixed fields
WriteOptionals ==
  /\ opc = "write"
  /\ fdata' = fdata \o write_optionals(container[1]) \o follow
  /\ opc' = "material"
  /\ UNCHANGED <<ftell, block_type_check, material, texture, had_end_marker,
                 ostart, oprobe, container, follow>>
  /\ UNCHANGED <<treeVars, fileVars, mshVars, loadVars>>

CurFrame ==
  [pc |-> opc, tell |-> ftell, probe |-> oprobe, check |-> block_type_check,
   material |-> material, texture |-> texture, end_marker |-> had_end_marker]

SetFrame(fr) ==
  /\ opc' = fr.pc
  /\ ftell' = fr.tell
  /\ oprobe' = fr.probe
  /\ block_type_check' = fr.check
  /\ material' = fr.material
  /\ texture' = fr.texture
  /\ had_end_marker' = fr.end_marker
  /\ UNCHANGED <<fdata, ostart, container, follow>>
  /\ UNCHANGED <<treeVars, fileVars, mshVars, loadVars>>

ProbeMaterial == opc = "material" /\ SetFrame(probe_material(fdata, CurFrame))

ProbeTexture == opc = "texture" /\ SetFrame(probe_texture(fdata, CurFrame))

ProbeEndMarker == opc = "end_marker" /\ SetFrame(probe_end_marker(fdata, CurFrame))

OptNext == WriteOptionals \/ ProbeMaterial \/ ProbeTexture \/ ProbeEndMarker

SpecOpt == OptInit /\ [][OptNext]_vars

(***************************************************************************)
(* Block.read, the mesh-tree loop.  A decoder state D is the record of     *)
(* mesh, in_mesh, indentation_level and mesh_at; each branch of the loop   *)
(* is a function of D and of the Mesh just read.                           *)
(***************************************************************************)
Decoder == [mesh |-> mesh, in_mesh |-> in_mesh,
            indentation_level |-> indentation_level, mesh_at |-> mesh_at]

\* lines 715-720
decode_root(this_mesh) ==
  [mesh |-> <<this_mesh>>, in_mesh |-> 1, indentation_level |-> 0, mesh_at |-> <<1>>]

\* lines 725-735
decode_child(D, this_mesh) ==
  LET id == Len(D.mesh) + 1
      at == PyGet(D.mesh_at, D.indentation_level)
      level == D.indentation_level + 1
  IN  [mesh |-> Append([D.mesh EXCEPT ![at].child = id,
                                      ![at].meshes = Append(@, id)], this_mesh),
       in_mesh |-> D.in_mesh + 1,
       indentation_level |-> level,
       mesh_at |-> IF Len(D.mesh_at) < level + 1
                   THEN Append(D.mesh_at, id)
                   ELSE PySet(D.mesh_at, level, id)]

\* mutant: the sibling is listed under the node it follows, not under the parent
SiblingViewOwnerSame(D) == PyGet(D.mesh_at, D.indentation_level)

\* mesh_at[indentation_level-1]
SiblingViewOwner(D) == PyGet(D.mesh_at, D.indentation_level - 1)

\* lines 738-743
decode_sibling(D, this_mesh) ==
  LET id == Len(D.mesh) + 1
      at == PyGet(D.mesh_at, D.indentation_level)
      up == SiblingViewOwner(D)
      m1 == [D.mesh EXCEPT ![at].sibling = id]
      m2 == [m1 EXCEPT ![up].meshes = Append(@, id)]
  IN  [mesh |-> Append(m2, this_mesh),
       in_mesh |-> D.in_mesh + 1,
       indentation_level |-> D.indentation_level,
       mesh_at |-> PySet(D.mesh_at, D.indentation_level, id)]

\* while in_mesh < indentation_level: indentation_level -= 1
RECURSIVE Unwind(_, _)
Unwind(n, level) == IF n < level THEN Unwind(n, level - 1) ELSE level

\* mutant: MSH_END closes no Mesh
decode_end_kept(D) == D

\* lines 746-749
decode_end(D) ==
  [D EXCEPT !.in_mesh = D.in_mesh - 1,
            !.indentation_level = Unwind(D.in_mesh - 1, D.indentation_level)]

\* mutant: a value that is no known tag is taken for MSH_END
DispatchDegrading(value) ==
  IF value = MSH_CHILD THEN "child"
  ELSE IF value = MSH_SIBLING THEN "sibling"
  ELSE "end"

\* the if / elif / else chain on block_type.value (lines 724, 737, 745, 751)
Dispatch(value) ==
  IF value = MSH_CHILD THEN "child"
  ELSE IF value = MSH_SIBLING THEN "sibling"
  ELSE IF value = MSH_END THEN "end"
  ELSE "unknown"

\* mutant: the trailing marker is not verified
IsEOFUnchecked(value) == TRUE

\* block_type.value != MSH_EOF raises InvalidFormat
IsEOF(value) == value = MSH_EOF

(***************************************************************************)
(* Mesh.walk and Block.walk: the (mesh, depth) pairs the generator yields. *)
(***************************************************************************)
\* mutant: the depth handed down is the depth of the parent
NextDepthSame(level) == level

\* mesh.walk(indentation_level+1)
NextDepth(level) == level + 1

RECURSIVE MeshWalk(_, _, _)
MeshWalk(M, i, level) ==
  Concat([j \in 1..Len(M[i].meshes) |->
            <<[mesh |-> M[i].meshes[j], depth |-> level]>>
              \o MeshWalk(M, M[i].meshes[j], NextDepth(level))])

BlockWalk(M, r) ==
  IF r # 0 THEN <<[mesh |-> r, depth |-> 0]>> \o MeshWalk(M, r, 1) ELSE << >>

(***************************************************************************)
(* Inputs of the mesh-stream machine.                                      *)
(***************************************************************************)
NewMesh(name, vgs, ix) ==
  [name |-> name, vert_colors |-> 0, planes |-> 0, vertex |-> 0,
   vert_groups |-> vgs, indices |-> ix,
   child |-> 0, sibling |-> 0, meshes |-> << >>, level |-> 0]

\* the Mesh contents the model draws from: a bare Mesh named "a", and a Mesh
\* named "b" with one vertex group (a Material, the end marker set) and one index
MeshChoices ==
  { NewMesh(<<97>>, << >>, << >>),
    NewMesh(<<98>>,
            <<[material |-> Some([name |-> <<109>>]), texture |-> None,
               end_marker |-> TRUE]>>,
            <<7>>) }

\* a Mesh body as a file may hold it: like write_mesh_body, the sentinel
\* present where end_marker is set
InputBody(m) ==
  write_name(m.name) \o Zeros(SizeofMeshFields)
    \o to_uint32(0) \o to_uint32(0) \o to_uint32(0)
    \o to_uint32(Len(m.vert_groups))
    \o Concat([i \in 1..Len(m.vert_groups) |->
                 Zeros(SizeofVertGroupFields)
                   \o OnDisk(m.vert_groups[i], m.vert_groups[i].end_marker)])
    \o to_uint32(Len(m.indices))
    \o Concat([i \in 1..Len(m.indices) |-> to_uint16(m.indices[i])])

\* bodies whose name is empty once stripped and decoded: name_length 0, only
\* the terminator, and a single non-ASCII character
EmptyNameBodies == { <<0, 0>>, <<1, 0, 0>>, <<2, 0, 200, 0>> }

InputBodies == { InputBody(m) : m \in MeshChoices } \cup EmptyNameBodies

\* the marker values an input may hold: the four tags and an unknown value
InputWords == { MSH_CHILD, MSH_SIBLING, MSH_END, MSH_EOF, c_uint32 }

\* what the input holds where the decoder reads a marker: a whole word, or
\* the 0 to 3 bytes before the end of the file
MarkerSupply ==
  IF topen /\ ttell >= Len(tdata)
  THEN { [bytes |-> w, open |-> TRUE] : w \in InputWords }
       \cup { [bytes |-> SubSeq(w, 1, k), open |-> FALSE] : w \in InputWords, k \in 0..3 }
  ELSE { [bytes |-> << >>, open |-> topen] }

\* what the input holds where the decoder reads a Mesh: a body, or nothing
BodySupply(open, data, tell) ==
  IF open /\ tell >= Len(data)
  THEN { [bytes |-> b, open |-> TRUE] : b \in InputBodies }
       \cup { [bytes |-> << >>, open |-> FALSE] }
  ELSE { [bytes |-> << >>, open |-> open] }

(***************************************************************************)
(* The mesh-stream machine.                                                *)
(***************************************************************************)
TreeInit ==
  /\ OptIdle
  /\ MSHIdle
  /\ LoadIdle
  /\ FileIdle
  /\ in_mesh = 0 /\ indentation_level = 0 /\ mesh_at = << >>
  /\ block_type = c_uint32 /\ exc = "none" /\ graph0 = None
  /\ tdata = << >> /\ ttell = 0 /\ walked = << >>
  /\ \/ /\ origin = "input" /\ tpc = "root" /\ topen = TRUE
        /\ mesh = << >> /\ root = 0
     \/ /\ origin = "memory" /\ tpc = "build" /\ topen = FALSE
        /\ \E m \in MeshChoices : mesh = <<m>>
        /\ root = 1

SetDecoder(D) ==
  /\ mesh' = D.mesh
  /\ in_mesh' = D.in_mesh
  /\ indentation_level' = D.indentation_level
  /\ mesh_at' = D.mesh_at

Raise(e) ==
  /\ tpc' = "raised"
  /\ exc' = e
  /\ UNCHANGED <<mesh, root, in_mesh, indentation_level, mesh_at>>

\* a caller links a new Mesh as the child of a Mesh that has none
BuildChild ==
  /\ tpc = "build"
  /\ Len(mesh) < MaxMeshes
  /\ \E i \in 1..Len(mesh), m \in MeshChoices :
       /\ mesh[i].child = 0
       /\ mesh' = Append([mesh EXCEPT ![i].child = Len(mesh) + 1], m)
  /\ UNCHANGED <<root, in_mesh, indentation_level, mesh_at, block_type, tpc, exc,
                 tdata, ttell, topen, origin, graph0>>
  /\ UNCHANGED <<optVars, fileVars, mshVars, loadVars, walked>>

\* a caller links a new Mesh as the sibling of a Mesh that has none
BuildSibling ==
  /\ tpc = "build"
  /\ Len(mesh) < MaxMeshes
  /\ \E i \in 1..Len(mesh), m \in MeshChoices :
       /\ mesh[i].sibling = 0
       /\ mesh' = Append([mesh EXCEPT ![i].sibling = Len(mesh) + 1], m)
  /\ UNCHANGED <<root, in_mesh, indentation_level, mesh_at, block_type, tpc, exc,
                 tdata, ttell, topen, origin, graph0>>
  /\ UNCHANGED <<optVars, fileVars, mshVars, loadVars, walked>>

\* MSH.write of the Block's tree (lines 941-944), then a fresh Block is
\* about to be decoded from the bytes written
Write ==
  /\ tpc = "build" \/ (tpc = "done" /\ graph0 = None)
  /\ graph0' = Some([mesh |-> mesh, root |-> root])
  /\ tdata' = (IF root # 0 THEN write_mesh(mesh, root) ELSE << >>) \o MSH_EOF
  /\ ttell' = 0
  /\ topen' = FALSE
  /\ mesh' = << >> /\ root' = 0
  /\ in_mesh' = 0 /\ indentation_level' = 0 /\ mesh_at' = << >>
  /\ block_type' = c_uint32
  /\ tpc' = "root"
  /\ walked' = << >>
  /\ UNCHANGED <<exc, origin>>
  /\ UNCHANGED <<optVars, fileVars, mshVars, loadVars>>

\* self.root = Mesh(f, self, 0) ... mesh_at = [self.root]
ReadRoot ==
  /\ tpc = "root"
  /\ \E y \in BodySupply(topen, tdata, ttell) :
       \E data \in { tdata \o y.bytes } : \E m \in { MeshRead(data, ttell, 0) } :
           /\ tdata' = data
           /\ topen' = y.open
           /\ ttell' = m.tell
           /\ IF m.exc # "none"
              THEN Raise(m.exc)
              ELSE /\ SetDecoder(decode_root(m.obj[1]))
                   /\ root' = 1
                   /\ tpc' = "loop"
                   /\ exc' = exc
  /\ UNCHANGED <<block_type, origin, graph0>>
  /\ UNCHANGED <<optVars, fileVars, mshVars, loadVars, walked>>

\* f.readinto(block_type) gives MSH_CHILD
ReadChild ==
  /\ tpc = "loop"
  /\ \E x \in MarkerSupply :
       \E d1 \in { tdata \o x.bytes } : \E r \in { readinto(block_type, d1, ttell) } :
           /\ Dispatch(r.value) = "child"
           /\ block_type' = r.value
           /\ \E y \in BodySupply(x.open, d1, r.tell) :
                \E d2 \in { d1 \o y.bytes } : \E m \in { MeshRead(d2, r.tell, indentation_level + 1) } :
                    /\ tdata' = d2
                    /\ topen' = y.open
                    /\ ttell' = m.tell
                    /\ IF m.exc # "none"
                       THEN Raise(m.exc)
                       ELSE /\ Len(mesh) < MaxMeshes
                            /\ SetDecoder(decode_child(Decoder, m.obj[1]))
                            /\ UNCHANGED <<root, tpc, exc>>
  /\ UNCHANGED <<origin, graph0>>
  /\ UNCHANGED <<optVars, fileVars, mshVars, loadVars, walked>>

\* f.readinto(block_type) gives MSH_SIBLING
ReadSibling ==
  /\ tpc = "loop"
  /\ \E x \in MarkerSupply :
       \E d1 \in { tdata \o x.bytes } : \E r \in { readinto(block_type, d1, ttell) } :
           /\ Dispatch(r.value) = "sibling"
           /\ block_type' = r.value
           /\ \E y \in BodySupply(x.open, d1, r.tell) :
                \E d2 \in { d1 \o y.bytes } : \E m \in { MeshRead(d2, r.tell, indentation_level) } :
                    /\ tdata' = d2
                    /\ topen' = y.open
                    /\ ttell' = m.tell
                    /\ IF m.exc # "none"
                       THEN Raise(m.exc)
                       ELSE /\ Len(mesh) < MaxMeshes
                            /\ SetDecoder(decode_sibling(Decoder, m.obj[1]))
                            /\ UNCHANGED <<root, tpc, exc>>
  /\ UNCHANGED <<origin, graph0>>
  /\ UNCHANGED <<optVars, fileVars, mshVars, loadVars, walked>>

\* f.readinto(block_type) gives MSH_END; then the loop condition
ReadEnd ==
  /\ tpc = "loop"
  /\ \E x \in MarkerSupply :
       \E d1 \in { tdata \o x.bytes } : \E r \in { readinto(block_type, d1, ttell) } :
         \E D \in { decode_end(Decoder) } :
           /\ Dispatch(r.value) = "end"
           /\ block_type' = r.value
           /\ tdata' = d1
           /\ topen' = x.open
           /\ ttell' = r.tell
           /\ SetDecoder(D)
           /\ tpc' = IF D.in_mesh > 0 THEN "loop" ELSE "eof"
  /\ UNCHANGED <<root, exc, origin, graph0>>
  /\ UNCHANGED <<optVars, fileVars, mshVars, loadVars, walked>>

\* f.readinto(block_type) gives any other value: raise UnknownBlock
ReadUnknown ==
  /\ tpc = "loop"
  /\ \E x \in MarkerSupply :
       \E d1 \in { tdata \o x.bytes } : \E r \in { readinto(block_type, d1, ttell) } :
           /\ Dispatch(r.value) = "unknown"
           /\ block_type' = r.value
           /\ tdata' = d1
           /\ topen' = x.open
           /\ ttell' = r.tell
           /\ Raise("UnknownBlock")
  /\ UNCHANGED <<origin, graph0>>
  /\ UNCHANGED <<optVars, fileVars, mshVars, loadVars, walked>>

\* lines 754-757
ReadEOF ==
  /\ tpc = "eof"
  /\ \E x \in MarkerSupply :
       \E d1 \in { tdata \o x.bytes } : \E r \in { readinto(block_type, d1, ttell) } :
           /\ block_type' = r.value
           /\ tdata' = d1
           /\ topen' = x.open
           /\ ttell' = r.tell
           /\ IF IsEOF(r.value)
              THEN /\ tpc' = "done"
                   /\ UNCHANGED <<mesh, root, in_mesh, indentation_level, mesh_at, exc>>
              ELSE Raise("InvalidFormat")
  /\ UNCHANGED <<origin, graph0>>
  /\ UNCHANGED <<optVars, fileVars, mshVars, loadVars, walked>>

\* a caller iterates Block.walk() of the decoded Block to its end
Walk ==
  /\ tpc = "done"
  /\ Len(walked) < MaxWalks
  /\ walked' = Append(walked, BlockWalk(mesh, root))
  /\ UNCHANGED <<mesh, root, in_mesh, indentation_level, mesh_at, block_type, tpc, exc,
                 tdata, ttell, topen, origin, graph0>>
  /\ UNCHANGED <<optVars, fileVars, mshVars, loadVars>>

Next ==
  \/ BuildChild
  \/ BuildSibling
  \/ Write
  \/ ReadRoot
  \/ ReadChild
  \/ ReadSibling
  \/ ReadEnd
  \/ ReadUnknown
  \/ ReadEOF
  \/ Walk

Spec == TreeInit /\ [][Next]_vars

\* the steps of Block.read: Python goes on executing the decode, so a step
\* that stays possible is eventually taken
DecodeStep ==
  ReadRoot \/ ReadChild \/ ReadSibling \/ ReadEnd \/ ReadUnknown \/ ReadEOF

\* Block.read alone, on the bytes of an input
DecodeInit == TreeInit /\ origin = "input"

SpecDecode == DecodeInit /\ [][DecodeStep]_vars /\ WF_vars(DecodeStep)

(***************************************************************************)
(* The file level: an MSH object whose caller edits self.blocks and the    *)
(* header's blockCount, MSH.write of it, and MSH.read of the file written. *)
(***************************************************************************)
\* mutant: the header is written with the count it holds
RecountKeepsField(count, block_list) == count

\* self.block_header.blockCount = len(self.blocks)
Recount(count, block_list) == Len(block_list)

\* f.write(self.block_header)
write_block_header(count) ==
  Zeros(SizeofFileType) \o Zeros(SizeofVerID) \o to_uint32(count) \o Zeros(SizeofNotUsed)

\* BlockHeader.blockCount as MSH.read finds it in the header's bytes
HeaderBlockCount(header) ==
  uint32_value(SubSeq(header, SizeofFileType + SizeofVerID + 1,
                      SizeofFileType + SizeofVerID + SizeofUint32))

\* the Blocks the model draws from, told apart by name
BlockChoices == { [name |-> <<97>>], [name |-> <<98>>] }

BlockLists == UNION { [1..n -> BlockChoices] : n \in 0..MaxBlocks }

\* the values a caller may leave in block_header.blockCount
BlockCounts == 0..(MaxBlocks + 1)

\* an MSH object as MSH.__init__ leaves it: the count read from the header
\* and as many Blocks
FileInit ==
  /\ OptIdle
  /\ MSHIdle
  /\ LoadIdle
  /\ TreeIdle
  /\ blocks \in BlockLists
  /\ blockCount = Len(blocks)
  /\ blockCount0 = Len(blocks)
  /\ out_header = << >>
  /\ out_blocks = << >>
  /\ fpc = "ready"

\* a caller appends a Block to msh.blocks
AppendBlock ==
  /\ fpc \in {"ready", "written"}
  /\ Len(blocks) < MaxBlocks
  /\ \E b \in BlockChoices : blocks' = Append(blocks, b)
  /\ fpc' = "ready"
  /\ UNCHANGED <<blockCount, blockCount0, out_header, out_blocks>>
  /\ UNCHANGED <<optVars, treeVars, mshVars, loadVars>>

\* a caller removes a Block from msh.blocks
RemoveBlock ==
  /\ fpc \in {"ready", "written"}
  /\ \E i \in 1..Len(blocks) :
       blocks' = SubSeq(blocks, 1, i - 1) \o SubSeq(blocks, i + 1, Len(blocks))
  /\ fpc' = "ready"
  /\ UNCHANGED <<blockCount, blockCount0, out_header, out_blocks>>
  /\ UNCHANGED <<optVars, treeVars, mshVars, loadVars>>

\* a caller assigns msh.block_header.blockCount
SetBlockCount ==
  /\ fpc \in {"ready", "written"}
  /\ \E n \in BlockCounts \ {blockCount} : blockCount' = n
  /\ fpc' = "ready"
  /\ UNCHANGED <<blocks, blockCount0, out_header, out_blocks>>
  /\ UNCHANGED <<optVars, treeVars, mshVars, loadVars>>

\* MSH.write (lines 880-944): the count, the header, then every Block
MSHWrite ==
  /\ fpc \in {"ready", "written"}
  /\ blockCount0' = blockCount
  /\ blockCount' = Recount(blockCount, blocks)
  /\ out_header' = write_block_header(Recount(blockCount, blocks))
  /\ out_blocks' = [i \in 1..Len(blocks) |-> blocks[i]]
  /\ fpc' = "written"
  /\ UNCHANGED blocks
  /\ UNCHANGED <<optVars, treeVars, mshVars, loadVars>>

\* MSH.__init__ on the file written (lines 803-808): a Block read past the
\* last one written finds no root Mesh name
MSHRead ==
  /\ fpc = "written"
  /\ \E n \in { HeaderBlockCount(out_header) } :
       /\ blockCount' = n
       /\ IF n <= Len(out_blocks)
          THEN /\ blocks' = SubSeq(out_blocks, 1, n)
               /\ fpc' = "ready"
          ELSE /\ blocks' = out_blocks
               /\ fpc' = "raised"
  /\ UNCHANGED <<blockCount0, out_header, out_blocks>>
  /\ UNCHANGED <<optVars, treeVars, mshVars, loadVars>>

FileNext == AppendBlock \/ RemoveBlock \/ SetBlockCount \/ MSHWrite \/ MSHRead

SpecFile == FileInit /\ [][FileNext]_vars

(***************************************************************************)
(* Block.read (lines 638-757) as a function of the file's bytes and the    *)
(* cursor.  Arrays of fixed-size elements are kept as their lengths; the   *)
(* skin-weight table, the lists of records and the mesh tree are kept.     *)
(***************************************************************************)
c_float == Zeros(SizeofFloat)

\* the counted arrays that follow one another, all sized from the shared count
RECURSIVE ReadArrays(_, _, _)
ReadArrays(s, st, sizes) ==
  IF sizes = << >> THEN st
  ELSE The({ The({ ReadArrays(s, next, Tail(sizes)) :
                   next \in { [count |-> a.count, tell |-> a.tell,
                               lens |-> Append(st.lens, a.len)] } }) :
             a \in { ReadCounted(s, st, Head(sizes)) } })

\* BuckyDesc.read
BuckyDescRead(s, p) ==
  The({ [obj |-> [material |-> fr.material, texture |-> fr.texture,
                  end_marker |-> fr.end_marker],
         tell |-> fr.tell] :
        fr \in { read_optional_blocks(s, skip(s, p, SizeofBuckyDescFields)) } })

\* Anim.read
AnimRead(s, p) ==
  The({ [obj |-> [states |-> a.len], tell |-> a.tell] :
        a \in { ReadCounted(s, [count |-> c_uint32,
                                tell |-> skip(s, p, SizeofAnimFields)],
                            SizeofAnimKey) } })

RECURSIVE ReadItems(_, _, _, _)
RECURSIVE ItemRead(_, _, _)

\* a count read into the buffer st.count, then as many records of one kind
ReadCountedList(kind, s, st) ==
  The({ [count |-> c.value] @@ ReadItems(kind, s, c.tell, uint32_value(c.value)) :
        c \in { readinto(st.count, s, st.tell) } })

\* AnimList.read: no check of the name
AnimListRead(s, p) ==
  The({ The({ The({ [obj |-> [name |-> n.name, states |-> a.len,
                              animations |-> l.list],
                     tell |-> l.tell] :
                    l \in { ReadCountedList("anim", s, a) } }) :
              a \in { ReadCounted(s, [count |-> c_uint32,
                                      tell |-> skip(s, n.tell, SizeofAnimListFields)],
                                  SizeofAnimKey) } }) :
        n \in { read_name(s, p) } })

ItemRead(kind, s, p) ==
  CASE kind = "bucky" -> BuckyDescRead(s, p)
    [] kind = "vert_group" -> VertGroupRead(s, p)
    [] kind = "anim" -> AnimRead(s, p)
    [] kind = "animlist" -> AnimListRead(s, p)

ReadItems(kind, s, p, n) ==
  IF n = 0 THEN [list |-> << >>, tell |-> p]
  ELSE The({ The({ [list |-> <<v.obj>> \o rest.list, tell |-> rest.tell] :
                   rest \in { ReadItems(kind, s, v.tell, n - 1) } }) :
             v \in { ItemRead(kind, s, p) } })

\* VertIndex(weight, vertex_index)
VertIndex(weight, vertex_index) == [weight |-> weight, index |-> vertex_index]

\* weight = c_float(); vertex_index = c_uint16(); f.readinto(weight);
\* f.readinto(vertex_index)
PairRead(s, p) ==
  The({ The({ [obj |-> VertIndex(w.value, uint16_value(i.value)),
               tell |-> i.tell] :
              i \in { readinto(c_uint16, s, w.tell) } }) :
        w \in { readinto(c_float, s, p) } })

RECURSIVE ReadPairs(_, _, _)
ReadPairs(s, p, n) ==
  IF n = 0 THEN [list |-> << >>, tell |-> p]
  ELSE The({ The({ [list |-> <<v.obj>> \o rest.list, tell |-> rest.tell] :
                   rest \in { ReadPairs(s, v.tell, n - 1) } }) :
             v \in { PairRead(s, p) } })

\* VertIndexContainer.__init__
VertIndexContainer(count, array) == [count |-> count, array |-> array]

\* the states of the skin-weight table; ac is the array_count buffer
RECURSIVE ReadStates(_, _, _, _)
ReadStates(s, ac, p, n) ==
  IF n = 0 THEN [list |-> << >>, tell |-> p]
  ELSE The({ The({ The({
         [list |-> <<VertIndexContainer(uint32_value(c.value), ps.list)>> \o rest.list,
          tell |-> rest.tell] :
         rest \in { ReadStates(s, c.value, ps.tell, n - 1) } }) :
         ps \in { ReadPairs(s, c.tell, uint32_value(c.value)) } }) :
         c \in { readinto(ac, s, p) } })

\* lines 673-687
VertToStateRead(s, st) ==
  The({ [count |-> c.value] @@ ReadStates(s, c_uint32, c.tell, uint32_value(c.value)) :
        c \in { readinto(st.count, s, st.tell) } })

\* lines 722-757: the loop of the mesh tree and the check of MSH_EOF
RECURSIVE TreeLoop(_, _, _, _)
TreeLoop(s, D, bt, p) ==
  The({ IF D.in_mesh > 0
        THEN The({
          IF kind = "unknown"
          THEN [exc |-> "UnknownBlock", tell |-> r.tell, mesh |-> D.mesh]
          ELSE IF kind = "end"
          THEN The({ TreeLoop(s, D2, r.value, r.tell) : D2 \in { decode_end(D) } })
          ELSE The({
            IF m.exc # "none"
            THEN [exc |-> m.exc, tell |-> m.tell, mesh |-> D.mesh]
            ELSE The({ TreeLoop(s, D2, r.value, m.tell) :
                       D2 \in { IF kind = "child" THEN decode_child(D, m.obj[1])
                                ELSE decode_sibling(D, m.obj[1]) } }) :
            m \in { MeshRead(s, r.tell, IF kind = "child"
                                        THEN D.indentation_level + 1
                                        ELSE D.indentation_level) } }) :
          kind \in { Dispatch(r.value) } })
        ELSE IF IsEOF(r.value)
        THEN [exc |-> "none", tell |-> r.tell, mesh |-> D.mesh]
        ELSE [exc |-> "InvalidFormat", tell |-> r.tell, mesh |-> D.mesh] :
        r \in { readinto(bt, s, p) } })

\* lines 715-757
TreeRead(s, p) ==
  The({ IF m.exc # "none"
        THEN [exc |-> m.exc, tell |-> m.tell, mesh |-> << >>]
        ELSE The({ TreeLoop(s, D, c_uint32, m.tell) : D \in { decode_root(m.obj[1]) } }) :
        m \in { MeshRead(s, p, 0) } })

\* Block.read: block_info, name, sphere, msh_header, then the sections
BlockRead(s, p) ==
  The({ The({ The({ The({ The({ The({ The({ The({
    [exc |-> t.exc, tell |-> t.tell,
     obj |-> [name |-> n.name,
              vertices |-> a1.lens[1], vertex_normals |-> a1.lens[2],
              uvs |-> a1.lens[3], vert_colors |-> a1.lens[4], faces |-> a1.lens[5],
              buckydescriptions |-> bk.list,
              vert_to_state |-> vts.list,
              vert_groups |-> vg.list,
              indices |-> a2.lens[1], planes |-> a2.lens[2],
              state_matrices |-> a2.lens[3], states |-> a2.lens[4],
              animation_list |-> al.list,
              mesh |-> t.mesh, root |-> IF t.mesh = << >> THEN 0 ELSE 1,
              vts_start |-> bk.tell, vts_end |-> vts.tell]] :
    t \in { TreeRead(s, al.tell) } }) :
    al \in { ReadCountedList("animlist", s, a2) } }) :
    a2 \in { ReadArrays(s, [count |-> vg.count, tell |-> vg.tell, lens |-> << >>],
                        <<SizeofIndex, SizeofPlane, SizeofMatrix, SizeofAnimKey>>) } }) :
    vg \in { ReadCountedList("vert_group", s, vts) } }) :
    vts \in { VertToStateRead(s, bk) } }) :
    bk \in { ReadCountedList("bucky", s, a1) } }) :
    a1 \in { ReadArrays(s, [count |-> c_uint32,
                            tell |-> skip(s, skip(s, n.tell, SizeofSphere), SizeofMSHHeader),
                            lens |-> << >>],
                        <<SizeofVector, SizeofVector, SizeofUVPair, SizeofColor,
                          SizeofFaceObj>>) } }) :
    n \in { read_name(s, skip(s, p, SizeofBlockInfo)) } })

(***************************************************************************)
(* MSH.write: one Block (lines 883-944).                                   *)
(***************************************************************************)
\* c_float(vts.weight): the Python float goes through a double and back, and
\* a signalling NaN comes back quiet
c_float_value(w) ==
  IF w[4] % 128 = 127 /\ w[3] >= 128 /\ (w[3] \div 64) % 2 = 0
     /\ (w[3] % 64 # 0 \/ w[2] # 0 \/ w[1] # 0)
  THEN [w EXCEPT ![3] = w[3] + 64]
  ELSE w

\* f.write(c_uint32(len(x))); f.write(x)
write_array(n, size) == to_uint32(n) \o Zeros(n * size)

write_bucky(bucky) == Zeros(SizeofBuckyDescFields) \o write_optionals(bucky)

\* mutant: a pair written as the 8-byte VertIndex structure
write_pair_struct(vts) == c_float_value(vts.weight) \o to_uint16(vts.index) \o <<0, 0>>

\* f.write(c_float(vts.weight)); f.write(c_uint16(vts.index))
write_pair(vts) == c_float_value(vts.weight) \o to_uint16(vts.index)

\* c_uint32(vts_container.count)
ContainerCount(vts_container) == vts_container.count

write_container(vts_container) ==
  to_uint32(ContainerCount(vts_container))
    \o Concat([i \in 1..Len(vts_container.array) |-> write_pair(vts_container.array[i])])

\* lines 906-911
write_vert_to_state(block) ==
  to_uint32(Len(block.vert_to_state))
    \o Concat([i \in 1..Len(block.vert_to_state) |->
                 write_container(block.vert_to_state[i])])

write_anim(a) == Zeros(SizeofAnimFields) \o write_array(a.states, SizeofAnimKey)

write_anim_list(al) ==
  write_name(al.name) \o Zeros(SizeofAnimListFields)
    \o write_array(al.states, SizeofAnimKey)
    \o to_uint32(Len(al.animations))
    \o Concat([i \in 1..Len(al.animations) |-> write_anim(al.animations[i])])

\* lines 883-904
write_block_head(block) ==
  Zeros(SizeofBlockInfo) \o write_name(block.name)
    \o Zeros(SizeofSphere) \o Zeros(SizeofMSHHeader)
    \o write_array(block.vertices, SizeofVector)
    \o write_array(block.vertex_normals, SizeofVector)
    \o write_array(block.uvs, SizeofUVPair)
    \o write_array(block.vert_colors, SizeofColor)
    \o write_array(block.faces, SizeofFaceObj)
    \o to_uint32(Len(block.buckydescriptions))
    \o Concat([i \in 1..Len(block.buckydescriptions) |->
                 write_bucky(block.buckydescriptions[i])])

\* lines 913-944
write_block_tail(block) ==
  to_uint32(Len(block.vert_groups))
    \o Concat([i \in 1..Len(block.vert_groups) |-> write_vert_group(block.vert_groups[i])])
    \o write_array(block.indices, SizeofIndex)
    \o write_array(block.planes, SizeofPlane)
    \o write_array(block.state_matrices, SizeofMatrix)
    \o write_array(block.states, SizeofAnimKey)
    \o to_uint32(Len(block.animation_list))
    \o Concat([i \in 1..Len(block.animation_list) |->
                 write_anim_list(block.animation_list[i])])
    \o (IF block.root # 0 THEN write_mesh(block.mesh, block.root) ELSE << >>)
    \o MSH_EOF

write_block(block) ==
  write_block_head(block) \o write_vert_to_state(block) \o write_block_tail(block)

\* MSH.write of the whole file
write_msh(block_list) ==
  write_block_header(Recount(0, block_list))
    \o Concat([i \in 1..Len(block_list) |-> write_block(block_list[i])])

(***************************************************************************)
(* Input files of the file decoder: a header and Blocks, each Block built  *)
(* from a description of its sections.                                     *)
(***************************************************************************)
\* 1.0, and a signalling NaN
WeightOne == <<0, 0, 128, 63>>
WeightSNaN == <<0, 0, 160, 127>>

NewBlock(name, buckys, vts, vgs, als, stream) ==
  [name |-> name, vertices |-> 0, buckys |-> buckys, vts |-> vts,
   vert_groups |-> vgs, animation_list |-> als, stream |-> stream]

\* the bytes of a Block as a file holds it; v.name is the name field with
\* its terminator, v.vts the lists of pairs, v.stream the mesh stream
InputBlock(v) ==
  Zeros(SizeofBlockInfo) \o to_uint16(Len(v.name)) \o v.name
    \o Zeros(SizeofSphere) \o Zeros(SizeofMSHHeader)
    \o write_array(v.vertices, SizeofVector)
    \o to_uint32(0) \o to_uint32(0) \o to_uint32(0) \o to_uint32(0)
    \o to_uint32(Len(v.buckys))
    \o Concat([i \in 1..Len(v.buckys) |->
                 Zeros(SizeofBuckyDescFields) \o OnDisk(v.buckys[i], v.buckys[i].end_marker)])
    \o to_uint32(Len(v.vts))
    \o Concat([i \in 1..Len(v.vts) |->
                 to_uint32(Len(v.vts[i]))
                   \o Concat([j \in 1..Len(v.vts[i]) |->
                                v.vts[i][j].weight \o to_uint16(v.vts[i][j].index)])])
    \o to_uint32(Len(v.vert_groups))
    \o Concat([i \in 1..Len(v.vert_groups) |->
                 Zeros(SizeofVertGroupFields)
                   \o OnDisk(v.vert_groups[i], v.vert_groups[i].end_marker)])
    \o to_uint32(0) \o to_uint32(0) \o to_uint32(0) \o to_uint32(0)
    \o to_uint32(Len(v.animation_list))
    \o Concat([i \in 1..Len(v.animation_list) |-> write_anim_list(v.animation_list[i])])
    \o v.stream

LeafBody == InputBody(NewMesh(<<97>>, << >>, <<7, 9>>))
LeafStream == LeafBody \o MSH_END \o MSH_EOF
NamedOnly == [material |-> Some([name |-> <<109>>]), texture |-> None, end_marker |-> FALSE]

\* the Blocks the model draws from: the minimal Block; the minimal Block whose
\* name holds a non-ASCII character; a Block with a skin-weight table of
\* three states (2, 0 and 1 pairs) and a root with a child; a minimal Block
\* whose table holds a signalling NaN; a Block with a bucky description, a
\* vertex group and an animation list; and three Blocks that do not decode
\* (empty root name, unknown marker, no MSH_EOF)
BlockInputs ==
  { NewBlock(<<97, 0>>, << >>, << >>, << >>, << >>, LeafStream),
    NewBlock(<<98, 200, 0>>, << >>, << >>, << >>, << >>, LeafStream),
    [ NewBlock(<<99, 0>>, << >>,
             << <<[weight |-> WeightOne, index |-> 3], [weight |-> c_float, index |-> 258]>>,
                << >>,
                <<[weight |-> WeightOne, index |-> 1]>> >>,
             << >>, << >>,
             LeafBody \o MSH_CHILD \o LeafBody \o MSH_END \o MSH_END \o MSH_EOF)
      EXCEPT !.vertices = 1 ],
    NewBlock(<<100, 0>>, << >>, << <<[weight |-> WeightSNaN, index |-> 0]>> >>,
             << >>, << >>, LeafStream),
    NewBlock(<<101, 0>>, <<NamedOnly>>, << >>, <<NamedOnly>>,
             <<[name |-> <<110>>, states |-> 1, animations |-> <<[states |-> 1]>>]>>,
             LeafStream),
    NewBlock(<<102, 0>>, << >>, << >>, << >>, << >>, <<1, 0, 0>>),
    NewBlock(<<103, 0>>, << >>, << >>, << >>, << >>, LeafBody \o c_uint32),
    NewBlock(<<104, 0>>, << >>, << >>, << >>, << >>, LeafBody \o MSH_END \o MSH_CHILD) }

SourceLists == UNION { [1..n -> BlockInputs] : n \in 0..MaxFileBlocks }

InputFile(count, source) ==
  write_block_header(count) \o Concat([i \in 1..Len(source) |-> InputBlock(source[i])])

(***************************************************************************)
(* The file decoder and encoder.                                           *)
(***************************************************************************)
MSHInit ==
  /\ OptIdle
  /\ LoadIdle
  /\ TreeIdle
  /\ FileIdle
  /\ msource \in SourceLists
  /\ \E count \in 0..MaxFileBlocks : mfile = InputFile(count, msource)
  /\ mtell = 0
  /\ mheader = write_block_header(0)
  /\ block_index = 0
  /\ mblocks = << >>
  /\ mpc = "header"
  /\ mexc = "none"
  /\ medited = FALSE
  /\ mout = None

\* mutant: the exception is swallowed and the loop goes on
PropagateSwallowed(e) == "blocks"

\* MSH.read has no handler: an exception of Block(f, self) leaves the loop,
\* MSH.read and MSH.__init__
Propagate(e) == "raised"

\* f.readinto(self.block_header)
MSHReadHeader ==
  /\ mpc = "header"
  /\ \E r \in { readinto(mheader, mfile, mtell) } :
       /\ mheader' = r.value
       /\ mtell' = r.tell
  /\ mpc' = "blocks"
  /\ UNCHANGED <<msource, mfile, block_index, mblocks, mexc, medited, mout>>
  /\ UNCHANGED <<optVars, treeVars, fileVars, loadVars>>

\* one turn of the loop: self.blocks += [Block(f, self)]
MSHReadBlock ==
  /\ mpc = "blocks"
  /\ block_index < HeaderBlockCount(mheader)
  /\ \E r \in { BlockRead(mfile, mtell) } :
       /\ mtell' = r.tell
       /\ IF r.exc = "none"
          THEN /\ mblocks' = Append(mblocks, r.obj)
               /\ block_index' = block_index + 1
               /\ UNCHANGED <<mpc, mexc>>
          ELSE /\ mpc' = Propagate(r.exc)
               /\ mexc' = r.exc
               /\ UNCHANGED <<mblocks, block_index>>
  /\ UNCHANGED <<msource, mfile, mheader, medited, mout>>
  /\ UNCHANGED <<optVars, treeVars, fileVars, loadVars>>

\* range(self.block_header.blockCount) is exhausted
MSHReadDone ==
  /\ mpc = "blocks"
  /\ block_index >= HeaderBlockCount(mheader)
  /\ mpc' = "done"
  /\ UNCHANGED <<msource, mfile, mtell, mheader, block_index, mblocks, mexc, medited, mout>>
  /\ UNCHANGED <<optVars, treeVars, fileVars, loadVars>>

\* a caller replaces a container of a skin-weight table by
\* VertIndexContainer(count, array)
ReplaceContainer ==
  /\ mpc = "done"
  /\ ~medited
  /\ \E b \in 1..Len(mblocks) : \E i \in 1..Len(mblocks[b].vert_to_state) :
     \E count \in 0..MaxPairs : \E n \in 0..MaxPairs :
       mblocks' = [mblocks EXCEPT ![b].vert_to_state[i] =
                     VertIndexContainer(count,
                                        [j \in 1..n |-> VertIndex(WeightOne, j)])]
  /\ medited' = TRUE
  /\ UNCHANGED <<msource, mfile, mtell, mheader, block_index, mpc, mexc, mout>>
  /\ UNCHANGED <<optVars, treeVars, fileVars, loadVars>>

\* MSH.write of the graph
MSHWriteFile ==
  /\ mpc = "done"
  /\ mout' = Some(write_msh(mblocks))
  /\ mpc' = "written"
  /\ UNCHANGED <<msource, mfile, mtell, mheader, block_index, mblocks, mexc, medited>>
  /\ UNCHANGED <<optVars, treeVars, fileVars, loadVars>>

MSHNext ==
  \/ MSHReadHeader
  \/ MSHReadBlock
  \/ MSHReadDone
  \/ ReplaceContainer
  \/ MSHWriteFile

SpecMSH == MSHInit /\ [][MSHNext]_vars

(***************************************************************************)
(* load of msh_blender_importer: Load on one file, or on each file of a    *)
(* multiple selection inside try/except Exception.                         *)
(***************************************************************************)
\* MSH.read as a function of the bytes: the exception that leaves it, or
\* "none"
RECURSIVE MSHReadBlocks(_, _, _)
MSHReadBlocks(s, p, n) ==
  IF n = 0 THEN "none"
  ELSE The({ IF r.exc # "none" THEN r.exc ELSE MSHReadBlocks(s, r.tell, n - 1) :
             r \in { BlockRead(s, p) } })

MSHException(s) ==
  The({ MSHReadBlocks(s, h.tell, HeaderBlockCount(h.value)) :
        h \in { readinto(write_block_header(0), s, 0) } })

\* Load(operator, context, filepath, ...): msh = bz2msh.MSH(filepath), then
\* the import into the scene, which may raise as well
LoadException(f) ==
  The({ IF e # "none" THEN e ELSE IF f.import_fails THEN "ImportError" ELSE "none" :
        e \in { MSHException(f.data) } })

\* the files the model draws from: a file of one Block that decodes, and
\* three whose Block raises ZeroLengthName, UnknownBlock and InvalidFormat,
\* each with an import that succeeds or raises
FileChoices ==
  { [data |-> InputFile(1, <<v>>), import_fails |-> x] :
    v \in { b \in BlockInputs : b.buckys = << >> /\ b.vts = << >> /\ b.name # <<98, 200, 0>> },
    x \in BOOLEAN }

\* ImportMSH.multi_select_files: the selection when it holds two files or
\* more, [] otherwise
Selections == { << >> } \cup UNION { [1..n -> FileChoices] : n \in 2..MaxFiles }

LoadInit ==
  /\ OptIdle
  /\ TreeIdle
  /\ FileIdle
  /\ MSHIdle
  /\ multiple_files \in Selections
  /\ IF multiple_files = << >>
     THEN \E f \in FileChoices : filepath = Some(f)
     ELSE filepath = Some(multiple_files[1])
  /\ index = 0
  /\ attempted = << >>
  /\ caught = << >>
  /\ lpc = IF multiple_files = << >> THEN "single" ELSE "loop"
  /\ lresult = None

\* mutant: the handler lets the exception go on
HandlerReraises(e) == "raised"

\* except Exception as msg: print(...)
Handler(e) == "loop"

\* if not multiple_files: Load(operator, context, filepath, ...)
LoadSingle ==
  /\ lpc = "single"
  /\ attempted' = Append(attempted, 0)
  /\ \E e \in { LoadException(filepath[1]) } :
       lpc' = IF e = "none" THEN "return" ELSE "raised"
  /\ UNCHANGED <<multiple_files, filepath, index, caught, lresult>>
  /\ UNCHANGED <<optVars, treeVars, fileVars, mshVars>>

\* one turn of: for index, filepath in enumerate(multiple_files): try: ...
LoadIteration ==
  /\ lpc = "loop"
  /\ index < Len(multiple_files)
  /\ filepath' = Some(multiple_files[index + 1])
  /\ attempted' = Append(attempted, index + 1)
  /\ \E e \in { LoadException(multiple_files[index + 1]) } :
       IF e = "none"
       THEN UNCHANGED <<caught, lpc>>
       ELSE /\ caught' = Append(caught, index + 1)
            /\ lpc' = Handler(e)
  /\ index' = index + 1
  /\ UNCHANGED <<multiple_files, lresult>>
  /\ UNCHANGED <<optVars, treeVars, fileVars, mshVars>>

\* return {"FINISHED"}
LoadReturn ==
  /\ \/ lpc = "return"
     \/ lpc = "loop" /\ index >= Len(multiple_files)
  /\ lresult' = Some("FINISHED")
  /\ lpc' = "done"
  /\ UNCHANGED <<multiple_files, filepath, index, attempted, caught>>
  /\ UNCHANGED <<optVars, treeVars, fileVars, mshVars>>

LoadNext == LoadSingle \/ LoadIteration \/ LoadReturn

SpecLoad == LoadInit /\ [][LoadNext]_vars

(***************************************************************************)
(* What a stream holds at an offset, read off the bytes without a cursor:  *)
(* the reference the claims about read_optional_blocks are stated against. *)
(***************************************************************************)
HasTag(s, p, tag) == p + 4 <= Len(s) /\ SubSeq(s, p + 1, p + 4) = tag

\* the end of a tagged record that starts at p: tag, 16-bit length, name, fields
RecordEnd(s, p, fields) ==
  IF p + 6 <= Len(s)
  THEN p + 6 + uint16_value(SubSeq(s, p + 5, p + 6)) + fields
  ELSE Len(s) + 1

Layout(s, p0) ==
  LET m == HasTag(s, p0, MSH_MATERIAL)
      p1 == IF m THEN RecordEnd(s, p0, SizeofMaterialFields) ELSE p0
      t == HasTag(s, p1, MSH_TEXTURE)
      p2 == IF t THEN RecordEnd(s, p1, SizeofTextureFields) ELSE p1
      e == HasTag(s, p2, MSH_END_OF_OPTIONALS)
      p3 == IF e THEN p2 + 4 ELSE p2
  IN  [material |-> m, texture |-> t, end_marker |-> e, end |-> p3,
       complete |-> p1 <= Len(s) /\ p2 <= Len(s)]

Returned == [material |-> material # None, texture |-> texture # None,
             end_marker |-> had_end_marker, end |-> ftell, complete |-> TRUE]

\* the bytes write_optionals emitted for the container
Emitted == SubSeq(fdata, ostart + 1, Len(fdata) - Len(follow))

(***************************************************************************)
(* Two trees compared node by node.  write_mesh visits the Meshes of a     *)
(* tree in the order WriteOrder gives, and a decode numbers the Meshes it  *)
(* creates in the order it reads them, so the k-th Mesh decoded stands for *)
(* the k-th Mesh written.                                                  *)
(***************************************************************************)
RECURSIVE WriteOrder(_, _)
WriteOrder(M, i) ==
  <<i>> \o (IF M[i].child # 0 THEN WriteOrder(M, M[i].child) ELSE << >>)
        \o (IF M[i].sibling # 0 THEN WriteOrder(M, M[i].sibling) ELSE << >>)

\* the Mesh of the tree written that a reference of the tree decoded stands for
Renamed(ord, j) == IF j = 0 THEN 0 ELSE ord[j]

\* i, i.sibling, i.sibling.sibling, ...
RECURSIVE SiblingChain(_, _)
SiblingChain(M, i) == IF i = 0 THEN << >> ELSE <<i>> \o SiblingChain(M, M[i].sibling)

\* the same contents, the end_marker flags of the vertex groups left out
SameContents(a, b) ==
  /\ a.name = b.name
  /\ a.vert_colors = b.vert_colors /\ a.planes = b.planes /\ a.vertex = b.vertex
  /\ a.indices = b.indices
  /\ Len(a.vert_groups) = Len(b.vert_groups)
  /\ \A k \in 1..Len(a.vert_groups) :
       /\ a.vert_groups[k].material = b.vert_groups[k].material
       /\ a.vert_groups[k].texture = b.vert_groups[k].texture

\* the tree decoded equals the tree G in every field but end_marker
SameGraph(G, M2) ==
  /\ G.root # 0
  /\ Len(WriteOrder(G.mesh, G.root)) = Len(G.mesh)
  /\ Len(M2) = Len(G.mesh)
  /\ \A k \in 1..Len(M2) :
       \E ord \in { WriteOrder(G.mesh, G.root) } : \E a \in { G.mesh[ord[k]] } :
         /\ SameContents(a, M2[k])
         /\ a.level = M2[k].level
         /\ a.child = Renamed(ord, M2[k].child)
         /\ a.sibling = Renamed(ord, M2[k].sibling)
         /\ a.meshes = [j \in 1..Len(M2[k].meshes) |-> ord[M2[k].meshes[j]]]

\* the tree decoded has the edges of the tree G, and every children view is
\* the sibling chain of the child
SameShape(G, M2) ==
  /\ Len(M2) = Len(G.mesh)
  /\ \A k \in 1..Len(M2) :
       \E ord \in { WriteOrder(G.mesh, G.root) } : \E a \in { G.mesh[ord[k]] } :
         /\ a.name = M2[k].name
         /\ a.child = Renamed(ord, M2[k].child)
         /\ a.sibling = Renamed(ord, M2[k].sibling)
         /\ [j \in 1..Len(M2[k].meshes) |-> ord[M2[k].meshes[j]]]
              = SiblingChain(G.mesh, a.child)

(***************************************************************************)
(* C1.  Round trip: for every tree G that Block.read decodes from an       *)
(* accepted marker stream, the decode of the bytes MSH.write makes of G    *)
(* succeeds and gives a tree equal to G in every field but end_marker.     *)
(***************************************************************************)
C1_RoundTrip ==
  (origin = "input" /\ graph0 # None)
    => /\ tpc # "raised"
       /\ tpc = "done" => SameGraph(graph0[1], mesh)

(***************************************************************************)
(* C2.  Tree shape preservation: for every in-memory tree whose root has   *)
(* no sibling, the decode of the bytes write_mesh emits raises nothing and *)
(* gives each node the child and sibling edges it had and a children view  *)
(* that is the list child, child.sibling, child.sibling.sibling, ...       *)
(***************************************************************************)
C2_ShapePreserved ==
  (origin = "memory" /\ graph0 # None /\ graph0[1].mesh[graph0[1].root].sibling = 0)
    => /\ tpc # "raised"
       /\ tpc = "done" => SameShape(graph0[1], mesh)

\* a tree of depth 2 with a fan-out of 2 has been written and decoded
C2_Witness ==
  /\ origin = "memory" /\ graph0 # None /\ tpc = "done"
  /\ graph0[1].mesh[graph0[1].root].sibling = 0
  /\ \E i \in 1..Len(mesh) : Len(mesh[i].meshes) >= 2
  /\ \E i \in 1..Len(mesh) : mesh[i].level >= 2

(***************************************************************************)
(* C3.  Header integrity: when MSH.write has returned, the blockCount in   *)
(* the header written and the one in block_header both equal len(blocks),  *)
(* the number of Blocks written, whatever blockCount held before the call. *)
(***************************************************************************)
C3_HeaderCountsBlocks ==
  fpc = "written"
    => /\ Len(out_header) = SizeofFileType + SizeofVerID + SizeofUint32 + SizeofNotUsed
       /\ HeaderBlockCount(out_header) = Len(out_blocks)
       /\ Len(out_blocks) = Len(blocks)
       /\ blockCount = Len(blocks)

\* MSH.write has returned and the count it found was stale
C3_Witness ==
  /\ fpc = "written"
  /\ Len(blocks) >= 2
  /\ blockCount0 # Len(blocks)

(***************************************************************************)
(* C4.  Unknown marker: in the mesh-tree loop, a marker value that is none *)
(* of CHILD, SIBLING, END raises UnknownBlock in that step: no Mesh is     *)
(* created, no edge, children view or loop variable changes, and no byte   *)
(* after the marker is consumed.                                           *)
(***************************************************************************)
C4_UnknownMarkerRaises ==
  [][ (tpc = "loop" /\ block_type' \notin {MSH_CHILD, MSH_SIBLING, MSH_END})
        => /\ tpc' = "raised" /\ exc' = "UnknownBlock"
           /\ mesh' = mesh /\ root' = root
           /\ in_mesh' = in_mesh /\ indentation_level' = indentation_level
           /\ mesh_at' = mesh_at
           /\ ttell' <= ttell + SizeofUint32
           /\ ttell' <= Len(tdata') ]_vars

\* an unknown marker was read below a child of the root
C4_Witness ==
  /\ tpc = "raised" /\ exc = "UnknownBlock"
  /\ origin = "input"
  /\ indentation_level >= 1
  /\ block_type = c_uint32

(***************************************************************************)
(* C5.  EOF check: the decode of a Block succeeds only if the file holds   *)
(* the four bytes of MSH_EOF right after the loop; any other value there,  *)
(* or fewer than four bytes, raises InvalidFormat.                         *)
(***************************************************************************)
C5_EOFChecked ==
  [][ tpc = "eof"
        => IF HasTag(tdata', ttell, MSH_EOF)
           THEN tpc' = "done"
           ELSE tpc' = "raised" /\ exc' = "InvalidFormat" ]_vars

\* the file ended three bytes into MSH_EOF: the value compared is those three
\* bytes under the high byte MSH_END left in block_type
C5_Witness ==
  /\ tpc = "raised" /\ exc = "InvalidFormat"
  /\ ttell = Len(tdata)
  /\ block_type = <<241, 71, 187, 169>>

(***************************************************************************)
(* C6.  Name invariant for meshes: when the Mesh read as root, after CHILD *)
(* or after SIBLING has an empty name, the step raises ZeroLengthName and  *)
(* the Meshes with their edges and children views, the depth stack,        *)
(* in_mesh and indentation_level are what they were before the marker.     *)
(***************************************************************************)
C6_EmptyNameRaises ==
  [][ ( /\ \/ tpc = "root"
           \/ tpc = "loop" /\ block_type' \in {MSH_CHILD, MSH_SIBLING}
        /\ \E at \in { IF tpc = "root" THEN ttell
                       ELSE readinto(block_type, tdata', ttell).tell } :
             read_name(tdata', at).name = << >> )
        => /\ tpc' = "raised" /\ exc' = "ZeroLengthName"
           /\ mesh' = mesh /\ root' = root
           /\ in_mesh' = in_mesh /\ indentation_level' = indentation_level
           /\ mesh_at' = mesh_at ]_vars

\* an empty name was met after SIBLING, below the root
C6_Witness ==
  /\ tpc = "raised" /\ exc = "ZeroLengthName"
  /\ block_type = MSH_SIBLING
  /\ indentation_level >= 1
  /\ Len(mesh) >= 2

\* C7 (as claimed): no successful decode holds a Material or Texture (or any
\* other named record) whose name is empty; a record that is complete in the
\* file and whose name is empty after stripping the terminator fails with
\* ZeroLengthName instead of being returned.
C7_EveryNameChecked ==
  (opc = "return" /\ Layout(fdata, ostart).complete) =>
    /\ material # None => material[1].name # << >>
    /\ texture # None => texture[1].name # << >>

\* C8 (as claimed): started where neither a Material nor a Texture tag is
\* present, read_optional_blocks returns both absent and leaves the cursor 8
\* bytes after the position where the probing reads started.
C8_CursorEightAfter ==
  (opc = "return" /\ ~HasTag(fdata, ostart, MSH_MATERIAL)
                  /\ ~HasTag(fdata, ostart, MSH_TEXTURE)) =>
    (material = None /\ texture = None /\ ftell = ostart + 8)

\* C8 (amended): started at a complete 4-byte word that is neither the
\* Material nor the Texture tag, read_optional_blocks raises nothing, returns
\* Material absent and Texture absent, is back at the start position after
\* each of the two non-matching probes, and returns with the cursor at the
\* start position, or 4 bytes after it when that word is the end-of-optionals
\* sentinel (which is then reported present).
C8_BothAbsentCursorRewound ==
  (/\ ostart + 4 <= Len(fdata)
   /\ ~HasTag(fdata, ostart, MSH_MATERIAL)
   /\ ~HasTag(fdata, ostart, MSH_TEXTURE)) =>
    /\ opc # "OSError"
    /\ opc \in {"texture", "end_marker"} => ftell = ostart /\ material = None
    /\ opc = "return" =>
         /\ material = None
         /\ texture = None
         /\ had_end_marker = HasTag(fdata, ostart, MSH_END_OF_OPTIONALS)
         /\ ftell = IF had_end_marker THEN ostart + 4 ELSE ostart

C8_Witness ==
  /\ opc = "return"
  /\ container = None
  /\ ostart = SizeofVertGroupFields
  /\ ostart + 4 <= Len(fdata)
  /\ ~HasTag(fdata, ostart, MSH_MATERIAL)
  /\ ~HasTag(fdata, ostart, MSH_TEXTURE)
  /\ ~HasTag(fdata, ostart, MSH_END_OF_OPTIONALS)
  /\ material = None /\ texture = None /\ ftell = ostart

\* C9 (as claimed): for each of the 8 combinations of Material record,
\* Texture record and sentinel laid out in that order at the cursor (each
\* record that is present being complete), read_optional_blocks, called
\* after the fixed fields of a face group, raises nothing and returns exactly
\* that triple with the cursor right after the last slot present.
C9_ReturnsLayout ==
  (ostart > 0 /\ Layout(fdata, ostart).complete) =>
    /\ opc # "OSError"
    /\ opc = "return" => Returned = Layout(fdata, ostart)

C16_AllReachable ==
  (origin = "input" /\ graph0 = None /\ tpc = "done")
    => /\ root = 1
       /\ Len(WriteOrder(mesh, root)) = Len(mesh)

(***************************************************************************)
(* C17.  SIBLING step: when SIBLING is read at depth d and the Mesh is     *)
(* created, the Mesh has level d, is the sibling of nodeAtDepth[d], is     *)
(* appended to the children view of nodeAtDepth[d-1], a slot of the stack  *)
(* one depth shallower, and to no other view, replaces nodeAtDepth[d],     *)
(* in_mesh grows by 1 and the depth stays d.                               *)
(***************************************************************************)
C17_SiblingStep ==
  [][ (tpc = "loop" /\ block_type' = MSH_SIBLING /\ Len(mesh') = Len(mesh) + 1)
        => \E d \in { indentation_level } : \E id \in { Len(mesh') } :
             /\ mesh'[id].level = d
             /\ mesh'[mesh_at[d + 1]].sibling = id
             /\ d - 1 >= 0
             /\ mesh'[mesh_at[d]].meshes = Append(mesh[mesh_at[d]].meshes, id)
             /\ \A i \in 1..Len(mesh) :
                  i # mesh_at[d] => mesh'[i].meshes = mesh[i].meshes
             /\ mesh_at' = [mesh_at EXCEPT ![d + 1] = id]
             /\ in_mesh' = in_mesh + 1
             /\ indentation_level' = d ]_vars

\* the Meshes of a tree in the order write_mesh emits their MSH_END, and the
\* depth of each Mesh in the order write_mesh emits the bodies
RECURSIVE EndOrder(_, _)
EndOrder(M, i) ==
  (IF M[i].child # 0 THEN EndOrder(M, M[i].child) ELSE << >>)
    \o <<i>>
    \o (IF M[i].sibling # 0 THEN EndOrder(M, M[i].sibling) ELSE << >>)

RECURSIVE WriteDepths(_, _, _)
WriteDepths(M, i, d) ==
  <<d>> \o (IF M[i].child # 0 THEN WriteDepths(M, M[i].child, d + 1) ELSE << >>)
        \o (IF M[i].sibling # 0 THEN WriteDepths(M, M[i].sibling, d) ELSE << >>)

\* the place of the Mesh w in the sequence ord
PlaceIn(ord, w) == CHOOSE k \in 1..Len(ord) : ord[k] = w

(***************************************************************************)
(* C18.  END step: reading MSH_END takes 1 from in_mesh and then sets the  *)
(* depth to min(depth, in_mesh); no Mesh is created and the depth stack is *)
(* unchanged.  On a stream the encoder produced, the depth after the END   *)
(* is the depth of the Mesh just closed, and when MSH_SIBLING follows, the *)
(* loop goes on with that Mesh in the stack slot of the depth, so that the *)
(* sibling attaches to it.                                                 *)
(***************************************************************************)
C18_EndStep ==
  [][ (tpc = "loop" /\ block_type' = MSH_END)
        => /\ in_mesh' = in_mesh - 1
           /\ indentation_level' = IF indentation_level < in_mesh - 1
                                   THEN indentation_level ELSE in_mesh - 1
           /\ mesh' = mesh
           /\ mesh_at' = mesh_at
           /\ graph0 # None =>
                \E G \in { graph0[1] } :
                \E ord \in { WriteOrder(G.mesh, G.root) } :
                \E k \in { PlaceIn(ord, EndOrder(G.mesh, G.root)[Len(mesh) - in_mesh']) } :
                  /\ indentation_level' = WriteDepths(G.mesh, G.root, 0)[k]
                  /\ HasTag(tdata, ttell', MSH_SIBLING)
                       => /\ tpc' = "loop"
                          /\ PyGet(mesh_at', indentation_level') = k ]_vars

\* the bodies and markers a mesh stream holds, read off its bytes from the
\* marker at p on
Token(kind, name) == [kind |-> kind, name |-> name]

RECURSIVE Tokens(_, _)
Tokens(s, p) ==
  IF HasTag(s, p, MSH_END) THEN <<Token("END", << >>)>> \o Tokens(s, p + SizeofUint32)
  ELSE IF HasTag(s, p, MSH_EOF) /\ p + SizeofUint32 = Len(s) THEN <<Token("EOF", << >>)>>
  ELSE IF HasTag(s, p, MSH_CHILD) \/ HasTag(s, p, MSH_SIBLING)
  THEN The({ IF m.exc # "none" THEN <<Token("?", << >>)>>
             ELSE <<Token(IF HasTag(s, p, MSH_CHILD) THEN "CHILD" ELSE "SIBLING", << >>),
                    Token("body", m.obj[1].name)>> \o Tokens(s, m.tell) :
             m \in { MeshRead(s, p + SizeofUint32, 0) } })
  ELSE <<Token("?", << >>)>>

StreamTokens(s) ==
  The({ IF m.exc # "none" THEN <<Token("?", << >>)>>
        ELSE <<Token("body", m.obj[1].name)>> \o Tokens(s, m.tell) :
        m \in { MeshRead(s, 0, 0) } })

CountKind(t, kinds) == Cardinality({ i \in 1..Len(t) : t[i].kind \in kinds })

(***************************************************************************)
(* C19.  Encoder marker order: the stream MSH.write makes of a tree of n   *)
(* Meshes starts with the root body and ends with the only MSH_EOF; it     *)
(* holds the n bodies in write order, n MSH_END and n-1 MSH_CHILD or       *)
(* MSH_SIBLING; every MSH_CHILD stands right after the body of the parent  *)
(* and before the child's body, every MSH_SIBLING right after an MSH_END   *)
(* and before the sibling's body.                                          *)
(***************************************************************************)
C19_MarkerOrder ==
  graph0 # None =>
    \E G \in { graph0[1] } : \E ord \in { WriteOrder(G.mesh, G.root) } :
    \E t \in { StreamTokens(tdata) } :
      /\ t[1].kind = "body"
      /\ t[Len(t)].kind = "EOF"
      /\ CountKind(t, {"EOF"}) = 1
      /\ CountKind(t, {"?"}) = 0
      /\ CountKind(t, {"body"}) = Len(ord)
      /\ CountKind(t, {"END"}) = Len(ord)
      /\ CountKind(t, {"CHILD", "SIBLING"}) = Len(ord) - 1
      /\ CountKind(t, {"CHILD"}) = Cardinality({ k \in 1..Len(ord) : G.mesh[ord[k]].child # 0 })
      /\ CountKind(t, {"SIBLING"}) = Cardinality({ k \in 1..Len(ord) : G.mesh[ord[k]].sibling # 0 })
      /\ SelectSeq(t, LAMBDA x : x.kind = "body")
           = [k \in 1..Len(ord) |-> Token("body", G.mesh[ord[k]].name)]
      /\ \A i \in 2..(Len(t) - 1) :
           /\ t[i].kind = "CHILD" => t[i - 1].kind = "body" /\ t[i + 1].kind = "body"
           /\ t[i].kind = "SIBLING" => t[i - 1].kind = "END" /\ t[i + 1].kind = "body"

\* a tree of four Meshes with child and sibling edges, the root's sibling
\* among them, has been written
C19_Witness ==
  /\ graph0 # None /\ origin = "memory"
  /\ Len(graph0[1].mesh) = MaxMeshes
  /\ graph0[1].mesh[graph0[1].root].sibling # 0
  /\ \E i \in 1..Len(graph0[1].mesh) :
       graph0[1].mesh[i].child # 0 /\ graph0[1].mesh[i].sibling # 0 /\ i # graph0[1].root

(***************************************************************************)
(* C20.  Bounded backtrack: no probe of read_optional_blocks that returns  *)
(* without raising leaves the cursor before the position at which the      *)
(* probe began, whatever the stream holds there, fewer than 4 bytes        *)
(* included; and the value a probe compares is the 4 bytes at that         *)
(* position, none of them left over from an earlier read.                  *)
(***************************************************************************)
C20_NeverBeforeProbeStart ==
  [][ (opc \in {"material", "texture", "end_marker"} /\ opc' # "OSError")
        => /\ ftell' >= ftell
           /\ HasTag(fdata, ftell, block_type_check') ]_vars

\* the place of the Mesh j in the walk w, and the Mesh in whose children
\* view j is listed
WalkPlace(w, j) == CHOOSE q \in 1..Len(w) : w[q].mesh = j
ViewOwners(M, j) ==
  { p \in 1..Len(M) : \E x \in 1..Len(M[p].meshes) : M[p].meshes[x] = j }

\* w is the depth-first pre-order of the hierarchy M: the root first at depth
\* 0, every Mesh once, each Mesh after the one that lists it and one deeper,
\* the first child right after its parent, children in their stored order
PreOrder(w, M, r) ==
  /\ Len(w) = Len(M)
  /\ { w[q].mesh : q \in 1..Len(w) } = 1..Len(M)
  /\ w[1] = [mesh |-> r, depth |-> 0]
  /\ \A q \in 2..Len(w) :
       /\ Cardinality(ViewOwners(M, w[q].mesh)) = 1
       /\ \A p \in ViewOwners(M, w[q].mesh) :
            /\ WalkPlace(w, p) < q
            /\ w[q].depth = w[WalkPlace(w, p)].depth + 1
       /\ w[q].depth <= w[q - 1].depth + 1
  /\ \A q \in 1..Len(w) : \A x \in 1..Len(M[w[q].mesh].meshes) :
       IF x = 1 THEN w[q + 1].mesh = M[w[q].mesh].meshes[1]
       ELSE WalkPlace(w, M[w[q].mesh].meshes[x - 1]) < WalkPlace(w, M[w[q].mesh].meshes[x])

(***************************************************************************)
(* C12.  Tree walk: a call of Block.walk on a decoded Block yields the     *)
(* root at depth 0 and then every other Mesh once in depth-first           *)
(* pre-order, children in stored order one deeper than their parent; it    *)
(* yields what the call before it yielded, and it changes nothing in the   *)
(* graph.                                                                  *)
(***************************************************************************)
C12_WalkPreOrder ==
  [][ Len(walked') > Len(walked)
        => /\ PreOrder(walked'[Len(walked')], mesh, root)
           /\ \A c \in 1..Len(walked) : walked'[c] = walked'[Len(walked')]
           /\ mesh' = mesh /\ root' = root ]_vars

\* Block.walk was called twice on a decoded hierarchy three levels deep in
\* which a Mesh has two children
C12_Witness ==
  /\ tpc = "done" /\ Len(walked) = MaxWalks
  /\ \E q \in 1..Len(walked[1]) : walked[1][q].depth >= 2
  /\ \E i \in 1..Len(mesh) : Len(mesh[i].meshes) >= 2

(***************************************************************************)
(* C11.  The skin-weight table of a Block: N states, state i with M_i      *)
(* pairs.                                                                  *)
(***************************************************************************)
RECURSIVE SumLens(_)
SumLens(lists) == IF lists = << >> THEN 0 ELSE Len(Head(lists)) + SumLens(Tail(lists))

\* 4 + sum over i of (4 + 6 * M_i)
TableSize(lists) == 4 + 4 * Len(lists) + 6 * SumLens(lists)

\* C11: for every Block decoded from a file, Block.read moved the cursor over
\* the skin-weight table by 4 + sum (4 + 6 * M_i) bytes, the table decoded
\* has N containers whose arrays have the lengths M_1..M_N and hold the pairs
\* of the file (4 bytes of weight, then 2 bytes of index), and MSH.write
\* emits as many bytes for the table.
C11_SkinTableSize ==
  ~medited =>
    \A k \in 1..Len(mblocks) :
      \E b \in { mblocks[k] } : \E lists \in { msource[k].vts } :
        /\ b.vts_end - b.vts_start = TableSize(lists)
        /\ Len(b.vert_to_state) = Len(lists)
        /\ \A i \in 1..Len(lists) :
             /\ b.vert_to_state[i].array = lists[i]
             /\ b.vert_to_state[i].count = Len(lists[i])
        /\ Len(write_vert_to_state(b)) = TableSize(lists)

\* a Block with a table of three states of 2, 0 and 1 pairs was decoded and
\* the file was written
C11_Witness ==
  /\ mpc = "written" /\ ~medited
  /\ \E k \in 1..Len(mblocks) :
       /\ Len(mblocks[k].vert_to_state) = 3
       /\ Len(mblocks[k].vert_to_state[1].array) = 2
       /\ Len(mblocks[k].vert_to_state[2].array) = 0
       /\ Len(mblocks[k].vert_to_state[3].array) = 1
       /\ mblocks[k].vts_end - mblocks[k].vts_start = 34

(***************************************************************************)
(* C13.  The minimal file.                                                 *)
(***************************************************************************)
\* a Block description without vertex groups, animations and sentinels whose
\* mesh stream is body, MSH_END, MSH_EOF
IsMinimal(v) ==
  /\ v.vert_groups = << >> /\ v.animation_list = << >>
  /\ \A i \in 1..Len(v.buckys) : ~v.buckys[i].end_marker
  /\ v.stream = LeafStream

\* C13 (as claimed): a file of one minimal Block decodes to one Block and one
\* Mesh without child and sibling whose index buffer is the one of the file,
\* and MSH.write of the graph gives the bytes of the file.
C13_MinimalByteExact ==
  ( /\ mpc = "written" /\ ~medited
    /\ Len(msource) = 1 /\ IsMinimal(msource[1])
    /\ HeaderBlockCount(mheader) = 1 )
  => /\ Len(mblocks) = 1
     /\ Len(mblocks[1].mesh) = 1
     /\ mblocks[1].mesh[1].child = 0 /\ mblocks[1].mesh[1].sibling = 0
     /\ mblocks[1].mesh[1].indices = <<7, 9>>
     /\ mout = Some(mfile)

\* the same for the minimal Block whose names are ASCII and whose table holds
\* no signalling NaN
C13_AsciiByteExact ==
  ( /\ mpc = "written" /\ ~medited
    /\ Len(msource) = 1 /\ IsMinimal(msource[1])
    /\ HeaderBlockCount(mheader) = 1
    /\ msource[1].name = <<97, 0>> )
  => /\ Len(mblocks) = 1
     /\ Len(mblocks[1].mesh) = 1
     /\ mout = Some(mfile)

(***************************************************************************)
(* C14.  An exception raised while a Block is decoded.                     *)
(***************************************************************************)
DecodeErrors == { "ZeroLengthName", "UnknownBlock", "InvalidFormat" }

\* the offset at which the bytes of the first k Blocks of the input end
EndOfBlock(k) ==
  IF k <= Len(msource)
  THEN Len(InputFile(0, SubSeq(msource, 1, k)))
  ELSE Len(mfile)

\* C14: when an exception is raised while Block k is decoded, the decode of
\* the file ends there: the Block is not added to the list, the cursor stays
\* where the failing read left it (for the Blocks of the model, the end of
\* the bytes of Block k), and afterwards nothing is read, no Block is
\* decoded, nothing is retried and nothing is written.
C14_AbortOnRaise ==
  [][ /\ (mexc = "none" /\ mexc' # "none") =>
           /\ mexc' \in DecodeErrors
           /\ mpc' = "raised"
           /\ mblocks' = mblocks
           /\ Len(mblocks) = block_index
           /\ block_index < HeaderBlockCount(mheader)
           /\ mtell' = EndOfBlock(block_index + 1)
      /\ mexc # "none" =>
           /\ UNCHANGED <<mtell, mblocks, block_index, mpc, mexc>>
           /\ mout' = None
           /\ Len(mblocks) < HeaderBlockCount(mheader)
    ]_vars

\* the first of two Blocks held an unknown marker: no Block was decoded and
\* the bytes of the second were never read
C14_Witness ==
  /\ mpc = "raised" /\ mexc = "UnknownBlock"
  /\ Len(msource) = 2 /\ HeaderBlockCount(mheader) = 2
  /\ mblocks = << >>
  /\ mtell = EndOfBlock(1) /\ mtell < Len(mfile)

(***************************************************************************)
(* C15.  The count written before a section and the elements written after *)
(* it.                                                                     *)
(***************************************************************************)
\* where MSH.write put Block k, its skin-weight table, and container i of it
BlockOffset(k) == Len(write_msh(SubSeq(mblocks, 1, k - 1)))
TableOffset(k) == BlockOffset(k) + Len(write_block_head(mblocks[k]))
ContainerOffset(k, i) ==
  TableOffset(k) + SizeofUint32
    + Len(Concat([j \in 1..(i - 1) |-> write_container(mblocks[k].vert_to_state[j])]))

\* the 32-bit count a file holds at an offset
CountAt(s, p) == uint32_value(SubSeq(s, p + 1, p + SizeofUint32))

\* C15 (as claimed): in the file MSH.write made of a graph, the count before
\* the skin-weight table is the number of containers written after it, the
\* count before the pairs of each container is the number of pairs written
\* after it, and (for a graph as decoded) a decoder reading the Block from
\* the output consumes exactly the bytes of the Block and finds the sections
\* the graph holds.
C15_PrefixesAgree ==
  mpc = "written" =>
    \A k \in 1..Len(mblocks) :
      \E b \in { mblocks[k] } : \E out \in { mout[1] } :
        /\ CountAt(out, TableOffset(k)) = Len(b.vert_to_state)
        /\ \A i \in 1..Len(b.vert_to_state) :
             /\ CountAt(out, ContainerOffset(k, i)) = Len(b.vert_to_state[i].array)
             /\ SubSeq(out, ContainerOffset(k, i) + SizeofUint32 + 1,
                       ContainerOffset(k, i) + Len(write_container(b.vert_to_state[i])))
                  = Concat([j \in 1..Len(b.vert_to_state[i].array) |->
                              write_pair(b.vert_to_state[i].array[j])])
        /\ ~medited =>
             \E r \in { BlockRead(out, BlockOffset(k)) } :
               /\ r.exc = "none"
               /\ r.tell = BlockOffset(k) + Len(write_block(b))
               /\ write_block(r.obj) = write_block(b)

\* the same for the graphs MSH.read builds, none of whose containers was
\* replaced
C15_DecodedPrefixesAgree == ~medited => C15_PrefixesAgree

(***************************************************************************)
(* C21.  load on a multiple selection.                                     *)
(***************************************************************************)
\* C21: with two files or more selected, whatever Load raises for a file is
\* caught: load never ends by an exception, the files attempted so far are
\* the files 1..index in the order given whether or not earlier ones failed,
\* the files whose exception was caught are among them, and load ends after
\* the last file, returning FINISHED.
C21_BatchIsolation ==
  Len(multiple_files) >= 2 =>
    /\ lpc # "raised"
    /\ attempted = [i \in 1..index |-> i]
    /\ \A c \in 1..Len(caught) :
         /\ caught[c] \in 1..index
         /\ LoadException(multiple_files[caught[c]]) # "none"
    /\ \A i \in 1..index :
         LoadException(multiple_files[i]) # "none" => \E c \in 1..Len(caught) : caught[c] = i
    /\ lpc = "done" => /\ index = Len(multiple_files)
                       /\ lresult = Some("FINISHED")

\* the first of the files selected raised in the decode, a later one in the
\* import, the last one was imported, and load returned
C21_Witness ==
  /\ Len(multiple_files) >= 3
  /\ lpc = "done" /\ lresult = Some("FINISHED")
  /\ MSHException(multiple_files[1].data) = "UnknownBlock"
  /\ LoadException(multiple_files[2]) = "ImportError"
  /\ LoadException(multiple_files[Len(multiple_files)]) = "none"
  /\ caught = <<1, 2>>
  /\ Len(attempted) = Len(multiple_files)

(***************************************************************************)
(* C22.  The indices of the mesh-tree loop.                                *)
(***************************************************************************)
\* an index that names a slot of a list without counting from its end
InsideList(list, i) == 0 <= i /\ i < Len(list)

\* what holds in every state of the loop, and when the loop is left
LoopStateSafe ==
  /\ tpc = "loop" =>
       /\ InsideList(mesh_at, indentation_level)
       /\ in_mesh >= 0
       /\ \A i \in 1..Len(mesh_at) : mesh_at[i] \in 1..Len(mesh)
  /\ tpc \in {"eof", "done"} => in_mesh = 0 /\ indentation_level = 0

\* C22 (as claimed): in every state of the loop 0 <= depth < len(stack),
\* the open count is not negative and every slot holds a Mesh of this
\* decode; the step that creates a child reads the slot depth, the step that
\* creates a sibling reads the slots depth and depth - 1, each inside the
\* stack; when the loop is left the open count and the depth are 0.
C22_IndexSafety ==
  [][ /\ LoopStateSafe
      /\ LoopStateSafe'
      /\ (tpc = "loop" /\ Len(mesh') = Len(mesh) + 1 /\ Dispatch(block_type') = "child")
           => InsideList(mesh_at, indentation_level)
      /\ (tpc = "loop" /\ Len(mesh') = Len(mesh) + 1 /\ Dispatch(block_type') = "sibling")
           => /\ InsideList(mesh_at, indentation_level)
              /\ InsideList(mesh_at, indentation_level - 1)
    ]_vars

\* the same without the slot depth - 1 of the sibling step
C22_SafeButSiblingOwner ==
  [][ /\ LoopStateSafe
      /\ LoopStateSafe'
      /\ (tpc = "loop" /\ Len(mesh') = Len(mesh) + 1 /\ Dispatch(block_type') = "child")
           => InsideList(mesh_at, indentation_level)
      /\ (tpc = "loop" /\ Len(mesh') = Len(mesh) + 1 /\ Dispatch(block_type') = "sibling")
           => /\ InsideList(mesh_at, indentation_level)
              /\ PyInRange(mesh_at, indentation_level - 1)
    ]_vars

(***************************************************************************)
(* C23.  The level of a Mesh, the depth Block.walk yields for it, and the  *)
(* children views.                                                         *)
(***************************************************************************)
\* every pair a walk yielded has the level of its Mesh as depth
DepthIsLevel(w, M) == \A q \in 1..Len(w) : w[q].depth = M[w[q].mesh].level

\* every Mesh a children view lists is the child of the owner of the view or
\* a sibling, by edges, of that child
ViewsFollowEdges(M) ==
  \A p \in 1..Len(M) : \A x \in 1..Len(M[p].meshes) :
    \E c \in 1..Len(SiblingChain(M, M[p].child)) :
      SiblingChain(M, M[p].child)[c] = M[p].meshes[x]

\* C23 (as claimed): after a successful decode every pair (mesh, depth) of
\* Block.walk has depth = mesh.level, and a children view lists only Meshes
\* that hang under its owner by child and sibling edges.
C23_LevelIsWalkDepth ==
  (tpc = "done" /\ Len(walked) >= 1)
    => /\ DepthIsLevel(walked[1], mesh)
       /\ ViewsFollowEdges(mesh)

\* the same for the streams in which no sibling marker is read at depth 0
\* and no child edge is assigned twice
C23_HoldsOnTrees ==
  (tpc = "done" /\ Len(walked) >= 1 /\ mesh[root].sibling = 0
     /\ Len(WriteOrder(mesh, root)) = Len(mesh))
    => /\ DepthIsLevel(walked[1], mesh)
       /\ ViewsFollowEdges(mesh)

(***************************************************************************)
(* C24.  Termination of the mesh-tree loop.                                *)
(***************************************************************************)
\* the loop was left: by its condition, or by one of the two exceptions
\* raised inside it
LoopLeft ==
  \/ tpc \in {"eof", "done"} /\ in_mesh = 0
  \/ tpc = "raised" /\ exc \in {"ZeroLengthName", "UnknownBlock", "InvalidFormat"}

\* C24: on every input the loop of Block.read that was entered is eventually
\* left, with in_mesh = 0 or by ZeroLengthName or UnknownBlock (InvalidFormat
\* is raised only after the loop, by the check of MSH_EOF); the inputs
\* include those that end inside the mesh stream, after which every read
\* returns no bytes.
C24_LoopTerminates ==
  /\ (tpc = "loop") ~> LoopLeft
  /\ [][ (tpc = "loop" /\ tpc' # "loop")
           => \/ tpc' = "eof" /\ in_mesh' = 0
              \/ tpc' = "raised" /\ exc' \in {"ZeroLengthName", "UnknownBlock"} ]_vars

\* the input ended inside the mesh stream after a complete MSH_END: two
\* Meshes were still open, the marker variable kept MSH_END, and the loop
\* was left with in_mesh = 0 by reads that returned no bytes
C24_Witness ==
  /\ tpc = "eof" /\ in_mesh = 0 /\ ~topen /\ ttell = Len(tdata)
  /\ block_type = MSH_END
  /\ origin = "input"
  /\ CountKind(StreamTokens(tdata), {"END"}) + 2 <= CountKind(StreamTokens(tdata), {"body"})

(***************************************************************************)
(* C25.  The decoder on the mesh stream write_mesh emitted.                *)
(***************************************************************************)
\* the decode of a written stream left the loop with only the MSH_EOF of
\* the Block ahead, and ended without exception at the end of the stream
ConsumedExactly ==
  /\ tpc = "eof" => ttell + SizeofUint32 = Len(tdata) /\ HasTag(tdata, ttell, MSH_EOF)
  /\ tpc = "raised" => FALSE
  /\ tpc = "done" => ttell = Len(tdata)

\* C25 (as claimed): on the stream MSH.write emits for any tree, in_mesh
\* reaches 0 at the last marker of the mesh stream and not before, so the
\* next read is the MSH_EOF of the Block and the decode ends at the end of
\* the Block's bytes.
C25_OutputConsumedExactly == graph0 # None => ConsumedExactly

\* the same for the trees whose root has no sibling
C25_HoldsWithoutRootSibling ==
  (graph0 # None /\ graph0[1].mesh[graph0[1].root].sibling = 0) => ConsumedExactly

====
